---- MODULE Spec2Model ----
(***************************************************************************)
(* Position risk-management engine (AdvancedPositionManager) and trade     *)
(* execution coordinator (TradingEngine) of solanabotV6.                   *)
(*                                                                         *)
(* Prices are integers in thousandths: 1000 stands for 1.00.               *)
(* currentStopLoss is kept in hundredths of a price unit, so that          *)
(*   entryPrice * (1 - 60/100)  is  entryPrice * (100 - 60)                *)
(* and every comparison of the source is exact:                            *)
(*   currentPrice <= currentStopLoss  is  currentPrice * 100 <= stop.      *)
(* An async function runs atomically from one awaited I/O call (price      *)
(* fetch, sell, notification, balance, buy) to the next; every such await  *)
(* is a position (pc) at which other callbacks may run.                    *)
(* SOL amounts (balance, reserve, buy amounts) are integers in units of     *)
(* 0.00001 SOL: reserve_sol 0.2 is 20000, min_sol_amount 0.005 is 500.      *)
(***************************************************************************)
EXTENDS Integers, Sequences, FiniteSets, Bags, TLC

(* ------------------------------ bounds -------------------------------- *)
Tokens == {"tokA", "tokB"}
Prices == {400, 1080, 1400, 9000}
TickTokens == {"tokA"}
EntryPrices == {1000}
EntryAmounts == {100}
MaxTicks == 3
MaxStops == 1
\* the prices of the worked scenarios (entry 1.00): the breakeven floor 1.08
\* and its neighbours, the thresholds 1.25 and 1.30, the trailing high 2.00
\* with its floor 1.50, and the entry price itself
ScenarioPrices == {1000, 1050, 1079, 1080, 1081, 1250, 1300, 1500, 2000}
MaxScenarioTicks == 3
\* the timers before the first position, during its life and after it
TimerPrices == {400, 1400}
MaxTimerTicks == 3
\* one token through its whole life: bought, ticked, bought again
LifePrices == {400, 1400}
MaxLifeTicks == 1
\* a sweep over two positions while the timers tick: a price under the
\* floor and a price at which the first ladder level is due
SweepPrices == {400, 1400}
MaxSweepTicks == 1
\* both timers over two positions, with every kind of answer of the feed
MaxFeedTicks == 2
MaxPriceCalls == 2
MaxFailureCount == 5
MaxRetries == 2
MaxSweepTotal == 2
\* requests of the coordinator whose awaited calls all settle: a token, and
\* the empty identifier
FairTokens == {"tokA", ""}
FairBalances == {700000}
\* one bought token, watched while its notifications fail
NotifyTokens == {"tokA"}
NotifyBalances == {100000}
NotifyEntryPrices == {1000}
NotifyPrices == {400, 1400}
MaxNotifyTicks == 1
MaxNotes == 1
\* wallet balances: below the reserve, exactly the reserve, a remainder
\* below the minimum buy, a remainder equal to it, and a large balance
Balances == {19900, 20000, 20400, 20500, 700000}
TradeBalances == {19900, 700000}
\* identifiers that are no token address: too short, and only blanks
Malformed == {"short", "blanks"}
GateTokens == {"tokA"} \cup Malformed
\* wallet balances around the reserve (0.2), the critical threshold (0.4)
\* and the warning threshold (1.0), and one beyond the maximum buy
WalletBalances == {19900, 20400, 40000, 40025, 100000, 100025, 700000}
\* the clock advances in steps of one second, the cache lives two
ClockStep == 1000
MaxClockTicks == 3
MaxBalanceCalls == 2

(* ------------------------- program constants -------------------------- *)
initial_stop_loss_percent == 60
breakeven_enabled == TRUE
trigger_profit_percent == 25
breakeven_offset_percent == 8
trailing_enabled == TRUE
activation_profit_percent == 40
trailing_distance_percent == 25
take_profit_grid_enabled == TRUE
advanced_trading_enabled == TRUE
levels ==
  << [profit_percent |-> 30,  sell_percent |-> 15],
     [profit_percent |-> 75,  sell_percent |-> 25],
     [profit_percent |-> 150, sell_percent |-> 30],
     [profit_percent |-> 300, sell_percent |-> 20],
     [profit_percent |-> 800, sell_percent |-> 10] >>
FullExitTenths == 999
MAX_QUEUE_SIZE == 5
NoPrice == 0
buy_mode == "percentage"
balance_percentage == 8
min_sol_amount == 500
max_sol_amount == 50000
reserve_sol == 20000
sol_amount == 5000
MinAddressLength == 32
CACHE_DURATION == 2000
BuyModes == {"percentage", "fixed"}
FetchFailed == -1
TimerIds == {"monitor", "updater"}

VARIABLES
  rec,           \* the Position objects ever created, by creation number
  positions,     \* Map<string, Position>: token -> creation number, 0 = absent
  entries,       \* insertion order of the Map, deleted entries kept as dead
  tasks,         \* one firing of each timer: where its callback stands
  isTrading,     \* TradingEngine.isTrading
  tradingQueue,  \* TradingEngine.tradingQueue
  flights,       \* executeTrade calls that passed the gate and await I/O
  stops,         \* number of emergencyStop calls so far
  ticks,         \* number of timer firings so far
  lastOp,        \* the operation that made the last step, and its result
  sales,         \* history: per token, the percentages of the sells the
                 \* execution service accepted, from ticks and from sweeps
  sweep,         \* the emergencyStop call in progress, and its result
  notes,         \* detached sendTradeNotification promises still pending
  bm,            \* BalanceManager: cache, timestamp, clock, calls in flight
  feed,          \* PriceFeedHandler: fresh cache entries, failureCount, calls
                 \* in flight
  retry          \* the emergencySellWithRetry call: its locals, and the
                 \* outcomes of its attempts so far

vars == <<rec, positions, entries, tasks, isTrading, tradingQueue, flights,
          stops, ticks, lastOp, sales, sweep, notes, bm, feed, retry>>

(* ------------------------------ helpers ------------------------------- *)
SetMax(S) == CHOOSE x \in S : \A y \in S : y <= x

Range(s) == {s[k] : k \in 1..Len(s)}

Count(s, x) == Cardinality({k \in 1..Len(s) : s[k] = x})

\* profitPercent >= pct, with profitPercent = (price - entry) / entry * 100
ProfitAtLeast(price, entry, pct) == (price - entry) * 100 >= pct * entry

IdleTask ==
  [pc |-> "idle", cursor |-> 0, tok |-> "", price |-> 0, entry |-> 0,
   i |-> 0, ref |-> 0, pct |-> 0,
   slTriggered |-> FALSE, slSold |-> FALSE, laterSteps |-> {}]

\* history: the steps a tick ran after its stop-loss check had triggered
Later(tk, step) ==
  IF tk.slTriggered THEN tk.laterSteps \cup {step} ELSE tk.laterSteps

AwaitOp == [op |-> "await", tok |-> "", error |-> "", next |-> "", queued |-> FALSE]

\* A step of a timer callback; price is the price its fetch has just
\* returned (0 for the other steps).
TickOp == [op |-> "tick", tok |-> "", error |-> "", next |-> "", queued |-> FALSE,
           price |-> 0]

\* history: nothing of a token has been sold yet
NoSales == [tick |-> 0, sweep |-> 0]

\* No emergencyStop is in progress.
IdleSweep == [pc |-> "idle", pending |-> {}, total |-> 0, successful |-> 0,
              failed |-> 0, details |-> {}, open |-> {}]

NoCache == [solBalance |-> -2, reservedAmount |-> 0,
            availableForTrading |-> 0, calculatedBuyAmount |-> 0]

StartTime == 10000

\* emergencySellWithRetry before it is called.  lastResult is its local
\* (NoResult = null); history: the outcomes of the attempts made.
NoResult == [total |-> -1, successful |-> 0, failed |-> 0]

Threw == [total |-> -2, successful |-> 0, failed |-> 0]

EmptyResult == [total |-> 0, successful |-> 0, failed |-> 0]

IdleRetry ==
  [pc |-> "idle", maxRetries |-> 0, attempt |-> 0, lastResult |-> NoResult,
   returned |-> NoResult, history |-> << >>]

\* PriceFeedHandler fields (part_004 lines 19-23) after construction.
\* cached[tok]: the cache holds an entry for tok younger than
\* CACHE_DURATION; calls: getTokenPrice calls awaiting the price service;
\* alerts is history: the warnings sent for tok since its count was last
\* zero.
NewPriceFeed ==
  [cached |-> [tok \in Tokens |-> FALSE],
   failureCount |-> [tok \in Tokens |-> 0],
   calls |-> EmptyBag,
   alerts |-> [tok \in Tokens |-> 0]]

\* BalanceManager after construction (lines 28-30): no snapshot, timestamp 0.
NewBalanceManager(mode) ==
  [mode |-> mode, balanceCache |-> NoCache, cacheTimestamp |-> 0,
   now |-> StartTime, calls |-> EmptyBag, invalidated |-> FALSE]

(* ------------------------- Position Store ----------------------------- *)
\* A store state m is a record [rec, positions, entries, tk]: the three
\* store variables and the task (timer firing) that is running, if any.

NewPosition(tokenAddress, entryPrice, entryAmount) ==
  [tokenAddress |-> tokenAddress,
   entryPrice |-> entryPrice,
   entryAmount |-> entryAmount,
   remainingAmount |-> entryAmount,
   currentStopLoss |-> entryPrice * (100 - initial_stop_loss_percent),
   isBreakevenMoved |-> FALSE,
   isTrailingActive |-> FALSE,
   highestPrice |-> entryPrice,
   executedTpLevels |-> << >>,
   totalSold |-> 0,
   maxObserved |-> entryPrice]  \* history: the largest of the entry price
                                \* and the prices the ticks of this record saw

\* A Position object that neither the Map nor a running callback refers to
\* any more is garbage: nothing can read or write it again, and its cell is
\* free for the next object.
Collected == NewPosition("", 0, 0)

\* The cell of the new object: a free one (the replaced object's own cell
\* when no running callback holds that object), else a new one.
Alloc(m, tokenAddress) ==
  LET free == {g \in 1..Len(m.rec) :
                 \/ m.rec[g] = Collected
                 \/ g = m.positions[tokenAddress] /\ g \notin m.pinned}
  IN IF free = {} THEN Len(m.rec) + 1
     ELSE CHOOSE g \in free : \A h \in free : g <= h

\* Map.set: an existing key keeps its place in the iteration order and gets
\* the new object; a new key is appended.
addPosition(m, tokenAddress, entryPrice, entryAmount) ==
  [m EXCEPT
     !.rec = [g \in 1..SetMax({Len(m.rec), Alloc(m, tokenAddress)}) |->
                IF g = Alloc(m, tokenAddress)
                THEN NewPosition(tokenAddress, entryPrice, entryAmount)
                ELSE m.rec[g]],
     !.positions[tokenAddress] = Alloc(m, tokenAddress),
     !.entries = IF m.positions[tokenAddress] = 0
                 THEN Append(m.entries, [tok |-> tokenAddress, live |-> TRUE])
                 ELSE m.entries]

\* Map.delete: running iterators skip the deleted entry.
removePosition(m, tokenAddress) ==
  [m EXCEPT
     !.positions[tokenAddress] = 0,
     !.entries = [k \in 1..Len(m.entries) |->
                    IF m.entries[k].tok = tokenAddress
                    THEN [tok |-> tokenAddress, live |-> FALSE]
                    ELSE m.entries[k]]]

PositionsSize(p) == Cardinality({tok \in Tokens : p[tok] # 0})

NextEntry(m, c) ==
  LET later == {j \in (c + 1)..Len(m.entries) : m.entries[j].live}
  IN IF later = {} THEN 0 ELSE CHOOSE j \in later : \A k \in later : j <= k

\* End of one loop body of a timer callback: the Map iterator moves to the
\* next live entry, or the callback ends.
Advance(m) ==
  LET j == NextEntry(m, m.tk.cursor)
  IN [m EXCEPT !.tk = IF j = 0 THEN IdleTask
                      ELSE [IdleTask EXCEPT !.pc = "fetch", !.cursor = j,
                                            !.tok = m.entries[j].tok]]

(* ------------------ the steps of one tick (updatePosition) ------------ *)
\* executeSell: sellToken refuses a percentage outside (0, 100]; otherwise
\* the outcome is the execution service's.
SellOutcomes(percentage) ==
  IF percentage > 0 /\ percentage <= 100 THEN BOOLEAN ELSE {FALSE}

\* faulty variant: a level already executed is due again
LevelDue_Repeat(pos, tk, i) ==
  ProfitAtLeast(tk.price, tk.entry, levels[i + 1].profit_percent)

\* faulty variant: the profit is not compared with the level's threshold
LevelDue_Unconditional(pos, tk, i) == ~(i \in Range(pos.executedTpLevels))

LevelDue(pos, tk, i) ==
  /\ ~(i \in Range(pos.executedTpLevels))
  /\ ProfitAtLeast(tk.price, tk.entry, levels[i + 1].profit_percent)

\* The for-loop of checkTakeProfitGrid from level i on, up to its next
\* awaited sell.  The loop works on the object it fetched at its start.
RECURSIVE ScanLevels(_, _)
ScanLevels(m, i) ==
  IF i >= Len(levels) THEN Advance(m)
  ELSE IF LevelDue(m.rec[m.tk.ref], m.tk, i)
       THEN [m EXCEPT !.tk.pc = "tp_sell", !.tk.i = i,
                      !.tk.pct = levels[i + 1].sell_percent,
                      !.tk.laterSteps = Later(m.tk, "tp")]
       ELSE ScanLevels(m, i + 1)

checkTakeProfitGrid(m) ==
  LET g == m.positions[m.tk.tok]
  IN IF g = 0 \/ ~take_profit_grid_enabled THEN Advance(m)
     ELSE ScanLevels([m EXCEPT !.tk.ref = g], 0)

RecordTpSell(pos, i) ==
  LET sold == pos.totalSold + levels[i + 1].sell_percent
  IN [pos EXCEPT !.executedTpLevels = Append(@, i),
                 !.totalSold = sold,
                 !.remainingAmount = (pos.entryAmount * (100 - sold)) \div 100]

FullySold(pos) == pos.totalSold * 10 >= FullExitTenths

\* faulty variant: the floor follows the candidate even when that lowers it
TrailingRaises_Always(pos, trailingStopPrice) == TRUE

TrailingRaises(pos, trailingStopPrice) == trailingStopPrice > pos.currentStopLoss

updateTrailingStop(m) ==
  LET g == m.positions[m.tk.tok]
  IN IF g = 0 THEN m
     ELSE IF ~m.rec[g].isTrailingActive THEN m
     ELSE LET trailingStopPrice ==
                m.rec[g].highestPrice * (100 - trailing_distance_percent)
          IN IF TrailingRaises(m.rec[g], trailingStopPrice)
             THEN [m EXCEPT !.rec[g].currentStopLoss = trailingStopPrice,
                            !.tk.laterSteps = Later(m.tk, "tu")]
             ELSE m

checkTrailingStopActivation(m) ==
  LET g == m.positions[m.tk.tok]
  IN IF g = 0 THEN m
     ELSE IF m.rec[g].isTrailingActive \/ ~trailing_enabled THEN m
     ELSE IF ProfitAtLeast(m.tk.price, m.tk.entry, activation_profit_percent)
          THEN [m EXCEPT !.rec[g].isTrailingActive = TRUE,
                         !.tk.pc = "tr_notify",
                         !.tk.laterSteps = Later(m.tk, "ta")]
          ELSE m

\* faulty variant: the floor is set again on every tick above the trigger
checkBreakevenMove_Repeats(m) ==
  LET g == m.positions[m.tk.tok]
  IN IF g = 0 THEN m
     ELSE IF ~breakeven_enabled THEN m
     ELSE IF ProfitAtLeast(m.tk.price, m.tk.entry, trigger_profit_percent)
          THEN [m EXCEPT !.rec[g].currentStopLoss =
                             m.rec[g].entryPrice * (100 + breakeven_offset_percent),
                         !.rec[g].isBreakevenMoved = TRUE,
                         !.tk.pc = "be_notify",
                         !.tk.laterSteps = Later(m.tk, "be")]
          ELSE m

checkBreakevenMove(m) ==
  LET g == m.positions[m.tk.tok]
  IN IF g = 0 THEN m
     ELSE IF m.rec[g].isBreakevenMoved \/ ~breakeven_enabled THEN m
     ELSE IF ProfitAtLeast(m.tk.price, m.tk.entry, trigger_profit_percent)
          THEN [m EXCEPT !.rec[g].currentStopLoss =
                             m.rec[g].entryPrice * (100 + breakeven_offset_percent),
                         !.rec[g].isBreakevenMoved = TRUE,
                         !.tk.pc = "be_notify",
                         !.tk.laterSteps = Later(m.tk, "be")]
          ELSE m

\* faulty variant: a price equal to the floor does not trigger
StopLossTriggered_Strict(pos, currentPrice) == currentPrice * 100 < pos.currentStopLoss

\* faulty variant: the price is compared with the floor of the opening
StopLossTriggered_InitialFloor(pos, currentPrice) ==
  currentPrice * 100 <= pos.entryPrice * (100 - initial_stop_loss_percent)

StopLossTriggered(pos, currentPrice) == currentPrice * 100 <= pos.currentStopLoss

\* faulty variant: the liquidation asks for 100% whatever was sold before
checkStopLoss_SellsAll(m) ==
  LET g == m.positions[m.tk.tok]
  IN IF g = 0 THEN m
     ELSE IF StopLossTriggered(m.rec[g], m.tk.price)
          THEN [m EXCEPT !.tk.pc = "sl_sell", !.tk.ref = g,
                         !.tk.pct = 100,
                         !.tk.slTriggered = TRUE]
          ELSE m

checkStopLoss(m) ==
  LET g == m.positions[m.tk.tok]
  IN IF g = 0 THEN m
     ELSE IF StopLossTriggered(m.rec[g], m.tk.price)
          THEN [m EXCEPT !.tk.pc = "sl_sell", !.tk.ref = g,
                         !.tk.pct = 100 - m.rec[g].totalSold,
                         !.tk.slTriggered = TRUE]
          ELSE m

\* faulty variant: the stop-loss is checked again after the trailing update
AfterTrailingActivation_StopLossLast(m) ==
  LET m2 == checkStopLoss(updateTrailingStop(m))
  IN IF m2.tk.pc = "sl_sell" THEN m2 ELSE checkTakeProfitGrid(m2)

\* updatePosition lines 138-142: trailing update, then the ladder.
AfterTrailingActivation(m) == checkTakeProfitGrid(updateTrailingStop(m))

\* updatePosition lines 135-142.
AfterBreakeven(m) ==
  LET m2 == checkTrailingStopActivation(m)
  IN IF m2.tk.pc = "tr_notify" THEN m2 ELSE AfterTrailingActivation(m2)

\* updatePosition lines 132-142: the stop-loss did not close the position.
AfterStopLoss(m) ==
  LET m2 == checkBreakevenMove(m)
  IN IF m2.tk.pc = "be_notify" THEN m2 ELSE AfterBreakeven(m2)

\* faulty variant: the tick goes on after a successful liquidation
StopLossSold_FallsThrough(m, sellSuccess) ==
  AfterStopLoss([m EXCEPT !.tk.slSold = sellSuccess])

\* checkStopLoss lines 163-180, once the awaited sell has returned.
StopLossSold(m, sellSuccess) ==
  IF sellSuccess
  THEN [m EXCEPT !.tk.pc = "sl_notify", !.tk.slSold = TRUE]
  ELSE AfterStopLoss(m)

\* faulty variant: the last price replaces the highest one
UpdateHighest_Overwrite(pos, currentPrice) == currentPrice

UpdateHighest(pos, currentPrice) ==
  IF currentPrice > pos.highestPrice THEN currentPrice ELSE pos.highestPrice

updatePosition(m, currentPrice) ==
  LET g == m.positions[m.tk.tok]
  IN IF g = 0 THEN Advance(m)
     ELSE LET m1 == [m EXCEPT
                       !.tk.pc = "run",
                       !.tk.price = currentPrice,
                       !.tk.entry = m.rec[g].entryPrice,
                       !.rec[g].highestPrice = UpdateHighest(m.rec[g], currentPrice),
                       !.rec[g].maxObserved = SetMax({@, currentPrice})]
              m2 == checkStopLoss(m1)
          IN IF m2.tk.pc = "sl_sell" THEN m2 ELSE AfterStopLoss(m2)

(* ----------------------------- tick actions --------------------------- *)
M(t) == [rec |-> rec, positions |-> positions, entries |-> entries,
         tk |-> [tasks[t] EXCEPT !.pc = "run"], sales |-> sales]

Collect(r, p, tks) ==
  LET reachable == {p[tok] : tok \in Tokens} \cup {tks[t].ref : t \in TimerIds}
  IN [g \in 1..Len(r) |-> IF g \in reachable THEN r[g] ELSE Collected]

\* With no iterator running, the deleted entries of the Map are not
\* observable; they are dropped.
IsLive(e) == e.live

Compact(e, tks) ==
  IF \A t \in TimerIds : tks[t].pc = "idle" THEN SelectSeq(e, IsLive) ELSE e

CommitOp(t, m, op) ==
  /\ tasks' = [tasks EXCEPT ![t] = m.tk]
  /\ rec' = Collect(m.rec, m.positions, tasks')
  /\ positions' = m.positions
  /\ entries' = Compact(m.entries, tasks')
  /\ lastOp' = op
  /\ sales' = m.sales
  /\ UNCHANGED <<isTrading, tradingQueue, flights, stops, sweep, notes, bm, feed, retry>>

Commit(t, m) == CommitOp(t, m, TickOp)

\* history: the execution service accepted the sell this tick was awaiting
Accepted(m, sellSuccess) ==
  IF sellSuccess THEN [m EXCEPT !.sales[m.tk.tok].tick = @ + m.tk.pct] ELSE m

\* setInterval callback of startPriceMonitoring / positionUpdateInterval.
TimerFire(t) ==
  /\ tasks[t].pc = "idle"
  /\ PositionsSize(positions) # 0
  /\ ticks < MaxTicks
  /\ ticks' = ticks + 1
  /\ Commit(t, Advance([M(t) EXCEPT !.tk = IdleTask]))

\* The loop body of a timer callback once its awaited price fetch has
\* returned: with a price, updatePosition; with no usable price, the next
\* position.
FetchStep(t, p, op) ==
  /\ UNCHANGED ticks
  /\ tasks[t].pc = "fetch"
  /\ CommitOp(t, IF p = NoPrice THEN Advance(M(t)) ELSE updatePosition(M(t), p), op)

\* The awaited price fetch returns: a price, or no usable price.
FetchDone(t, p) == FetchStep(t, p, [TickOp EXCEPT !.price = p])

SlSellDone(t, sellSuccess) ==
  /\ UNCHANGED ticks
  /\ tasks[t].pc = "sl_sell"
  /\ sellSuccess \in SellOutcomes(tasks[t].pct)
  /\ Commit(t, StopLossSold(Accepted(M(t), sellSuccess), sellSuccess))

SlNotifyDone(t) ==
  /\ UNCHANGED ticks
  /\ tasks[t].pc = "sl_notify"
  /\ Commit(t, Advance(removePosition(M(t), tasks[t].tok)))

BeNotifyDone(t) ==
  /\ UNCHANGED ticks
  /\ tasks[t].pc = "be_notify"
  /\ Commit(t, AfterBreakeven(M(t)))

TrNotifyDone(t) ==
  /\ UNCHANGED ticks
  /\ tasks[t].pc = "tr_notify"
  /\ Commit(t, AfterTrailingActivation(M(t)))

\* faulty variant: the level is recorded although its sell failed
TpSellDone_RecordsFailure(t, sellSuccess) ==
  /\ UNCHANGED ticks
  /\ tasks[t].pc = "tp_sell"
  /\ sellSuccess \in SellOutcomes(tasks[t].pct)
  /\ LET m == Accepted(M(t), sellSuccess)
     IN Commit(t, [m EXCEPT !.rec[m.tk.ref] = RecordTpSell(@, m.tk.i),
                            !.tk.pc = IF sellSuccess THEN "tp_notify"
                                      ELSE "tp_fail_notify"])

TpSellDone(t, sellSuccess) ==
  /\ UNCHANGED ticks
  /\ tasks[t].pc = "tp_sell"
  /\ sellSuccess \in SellOutcomes(tasks[t].pct)
  /\ LET m == Accepted(M(t), sellSuccess)
     IN Commit(t, IF sellSuccess
                  THEN [m EXCEPT !.rec[m.tk.ref] = RecordTpSell(@, m.tk.i),
                                 !.tk.pc = "tp_notify"]
                  ELSE [m EXCEPT !.tk.pc = "tp_fail_notify"])

TpNotifyDone(t) ==
  /\ UNCHANGED ticks
  /\ tasks[t].pc = "tp_notify"
  /\ LET m == M(t)
     IN Commit(t, IF FullySold(m.rec[m.tk.ref])
                  THEN Advance(removePosition(m, m.tk.tok))
                  ELSE ScanLevels(m, m.tk.i + 1))

TpFailNotifyDone(t) ==
  /\ UNCHANGED ticks
  /\ tasks[t].pc = "tp_fail_notify"
  /\ Commit(t, ScanLevels(M(t), tasks[t].i + 1))

\* The store as the operations outside the timer callbacks see it; pinned are
\* the objects a suspended callback still holds.
Store == [rec |-> rec, positions |-> positions, entries |-> entries,
          pinned |-> {tasks[t].ref : t \in TimerIds}]

\* addPosition called for a confirmed buy.
Register(tok, entryPrice, entryAmount) ==
  /\ LET m == addPosition(Store, tok, entryPrice, entryAmount)
     IN /\ rec' = Collect(m.rec, m.positions, tasks)
        /\ positions' = m.positions
        /\ entries' = Compact(m.entries, tasks)
  /\ lastOp' = [op |-> "addPosition", tok |-> tok, error |-> "", next |-> "", queued |-> FALSE]
  /\ UNCHANGED <<tasks, isTrading, tradingQueue, flights, stops, ticks>>
  /\ UNCHANGED <<sales, sweep, notes, bm, feed, retry>>

\* This specification follows the one position of one buy from its opening
\* on.
AddPosition(tok, entryPrice, entryAmount) ==
  /\ rec = << >>
  /\ Register(tok, entryPrice, entryAmount)

\* Each token is bought once: positions of several tokens, none re-opened.
OpenPosition(tok, entryPrice, entryAmount) ==
  /\ positions[tok] = 0 /\ sales[tok] = NoSales
  /\ \A g \in 1..Len(rec) : rec[g].tokenAddress # tok
  /\ Register(tok, entryPrice, entryAmount)

Init ==
  /\ rec = << >>
  /\ positions = [tok \in Tokens |-> 0]
  /\ entries = << >>
  /\ tasks = [t \in TimerIds |-> IdleTask]
  /\ isTrading = FALSE
  /\ tradingQueue = << >>
  /\ flights = EmptyBag
  /\ stops = 0
  /\ ticks = 0
  /\ lastOp = [op |-> "init", tok |-> "", error |-> "", next |-> "", queued |-> FALSE]
  /\ sales = [tok \in Tokens |-> NoSales]
  /\ sweep = IdleSweep
  /\ notes = 0
  /\ bm = NewBalanceManager(buy_mode)
  /\ feed = NewPriceFeed
  /\ retry = IdleRetry

TickNext ==
  \/ \E tok \in TickTokens, p \in EntryPrices, a \in EntryAmounts : AddPosition(tok, p, a)
  \/ \E t \in TimerIds : TimerFire(t)
  \/ \E t \in TimerIds, p \in Prices \cup {NoPrice} : FetchDone(t, p)
  \/ \E t \in TimerIds, ok \in BOOLEAN : SlSellDone(t, ok)
  \/ \E t \in TimerIds : SlNotifyDone(t)
  \/ \E t \in TimerIds : BeNotifyDone(t)
  \/ \E t \in TimerIds : TrNotifyDone(t)
  \/ \E t \in TimerIds, ok \in BOOLEAN : TpSellDone(t, ok)
  \/ \E t \in TimerIds : TpNotifyDone(t)
  \/ \E t \in TimerIds : TpFailNotifyDone(t)

SpecTick == Init /\ [][TickNext]_vars

\* The same timers and the same position, observed at the scenario prices.
ScenarioFire(t) == ticks < MaxScenarioTicks /\ TimerFire(t)

ScenarioNext ==
  \/ \E tok \in TickTokens, p \in EntryPrices, a \in EntryAmounts : AddPosition(tok, p, a)
  \/ \E t \in TimerIds : ScenarioFire(t)
  \/ \E t \in TimerIds, p \in ScenarioPrices \cup {NoPrice} : FetchDone(t, p)
  \/ \E t \in TimerIds, ok \in BOOLEAN : SlSellDone(t, ok)
  \/ \E t \in TimerIds : SlNotifyDone(t)
  \/ \E t \in TimerIds : BeNotifyDone(t)
  \/ \E t \in TimerIds : TrNotifyDone(t)
  \/ \E t \in TimerIds, ok \in BOOLEAN : TpSellDone(t, ok)
  \/ \E t \in TimerIds : TpNotifyDone(t)
  \/ \E t \in TimerIds : TpFailNotifyDone(t)

SpecScenario == Init /\ [][ScenarioNext]_vars

\* The setInterval callbacks exist from construction on
\* (AdvancedPositionManager constructor, line 60; index.ts line 395) and are
\* cleared only by stopMonitoring at shutdown: with an empty store a
\* firing returns at once (positionManager line 387, index.ts line 49).
EmptyFire(t) ==
  /\ tasks[t].pc = "idle"
  /\ PositionsSize(positions) = 0
  /\ ticks < MaxTimerTicks
  /\ ticks' = ticks + 1
  /\ lastOp' = [TickOp EXCEPT !.op = "emptyTick"]
  /\ UNCHANGED <<rec, positions, entries, tasks, isTrading, tradingQueue, flights,
                 stops, sales, sweep, notes, bm, feed, retry>>

TimerLifeFire(t) == ticks < MaxTimerTicks /\ TimerFire(t)

\* The timers from construction on, over the life of one position.
TimerNext ==
  \/ \E tok \in TickTokens, p \in EntryPrices, a \in EntryAmounts : AddPosition(tok, p, a)
  \/ \E t \in TimerIds : EmptyFire(t)
  \/ \E t \in TimerIds : TimerLifeFire(t)
  \/ \E t \in TimerIds, p \in TimerPrices \cup {NoPrice} : FetchDone(t, p)
  \/ \E t \in TimerIds, ok \in BOOLEAN : SlSellDone(t, ok)
  \/ \E t \in TimerIds : SlNotifyDone(t)
  \/ \E t \in TimerIds : BeNotifyDone(t)
  \/ \E t \in TimerIds : TrNotifyDone(t)
  \/ \E t \in TimerIds, ok \in BOOLEAN : TpSellDone(t, ok)
  \/ \E t \in TimerIds : TpNotifyDone(t)
  \/ \E t \in TimerIds : TpFailNotifyDone(t)

SpecTimer == Init /\ [][TimerNext]_vars

(* --------------------------- BalanceManager --------------------------- *)
Min(a, b) == IF a <= b THEN a ELSE b

Max(a, b) == IF a >= b THEN a ELSE b

\* faulty variant: the clamped amount is not cut down to the available balance
calculateBuyAmountIn_NoReclamp(mode, availableBalance) ==
  IF mode = "percentage"
  THEN LET percentageAmount == (availableBalance * balance_percentage) \div 100
       IN Max(min_sol_amount, Min(percentageAmount, max_sol_amount))
  ELSE Min(sol_amount, availableBalance)

\* calculateBuyAmount under a buy mode: the size of the next buy for an
\* available balance.
calculateBuyAmountIn(mode, availableBalance) ==
  IF mode = "percentage"
  THEN LET percentageAmount == (availableBalance * balance_percentage) \div 100
           clampedAmount == Max(min_sol_amount, Min(percentageAmount, max_sol_amount))
       IN Min(clampedAmount, availableBalance)
  ELSE Min(sol_amount, availableBalance)

\* calculateBuyAmount under the configured mode.
calculateBuyAmount(availableBalance) == calculateBuyAmountIn(buy_mode, availableBalance)

\* getBalance lines 52-70: the snapshot built from a fetched balance.
BalanceInfoIn(mode, solBalance) ==
  [solBalance |-> solBalance,
   reservedAmount |-> reserve_sol,
   availableForTrading |-> Max(0, solBalance - reserve_sol),
   calculatedBuyAmount |-> calculateBuyAmountIn(mode, Max(0, solBalance - reserve_sol))]

BalanceInfo(solBalance) == BalanceInfoIn(buy_mode, solBalance)

\* What an awaited getBalance gives: a snapshot, or the rejection of the
\* fetch (line 82).
BalanceError == [solBalance |-> -1, reservedAmount |-> 0,
                 availableForTrading |-> 0, calculatedBuyAmount |-> 0]

GetBalanceOutcomes(bals) == {BalanceInfo(b) : b \in bals} \cup {BalanceError}

\* faulty variant: the minimum buy amount is not enforced
canAffordTrade_NoMinimum(balance) ==
  IF balance = BalanceError
  THEN [canTrade |-> FALSE, reason |-> "Error checking balance"]
  ELSE IF balance.solBalance < balance.reservedAmount
  THEN [canTrade |-> FALSE, reason |-> "Insufficient balance (need reserve)"]
  ELSE IF balance.calculatedBuyAmount <= 0
  THEN [canTrade |-> FALSE, reason |-> "Insufficient balance after reserve"]
  ELSE [canTrade |-> TRUE, reason |-> ""]

\* canAffordTrade, for the outcome of its getBalance.
canAffordTrade(balance) ==
  IF balance = BalanceError
  THEN [canTrade |-> FALSE, reason |-> "Error checking balance"]
  ELSE IF balance.solBalance < balance.reservedAmount
  THEN [canTrade |-> FALSE, reason |-> "Insufficient balance (need reserve)"]
  ELSE IF balance.calculatedBuyAmount <= 0
  THEN [canTrade |-> FALSE, reason |-> "Insufficient balance after reserve"]
  ELSE IF balance.calculatedBuyAmount < min_sol_amount
  THEN [canTrade |-> FALSE, reason |-> "Amount below minimum"]
  ELSE [canTrade |-> TRUE, reason |-> ""]

(* --------------------------- the decision gate ------------------------ *)
\* The text a token identifier stands for: its length, and its length once
\* trimmed.
TokenText(tokenAddress) ==
  CASE tokenAddress = ""       -> [length |-> 0, trimmed |-> 0]
    [] tokenAddress = "short"  -> [length |-> 31, trimmed |-> 31]
    [] tokenAddress = "blanks" -> [length |-> 32, trimmed |-> 0]
    [] tokenAddress = "tokB"   -> [length |-> 32, trimmed |-> 32]
    [] OTHER                   -> [length |-> 44, trimmed |-> 44]

\* quickTradeCheck line 878, negated.
ValidTokenAddress(tokenAddress) ==
  /\ TokenText(tokenAddress).trimmed # 0
  /\ TokenText(tokenAddress).length >= MinAddressLength

Reject(reason) == [shouldTrade |-> FALSE, reason |-> reason, buyAmount |-> 0]

\* faulty variant: the answer of canAffordTrade is ignored
Affordable_Always(affordCheck) == TRUE

\* quickTradeCheck lines 883-890: the answer of canAffordTrade.
Affordable(affordCheck) == affordCheck.canTrade

\* quickTradeCheck lines 893-917, for the outcome of the getBalance inside
\* getOptimalBuyAmount; a rejected fetch lands in the catch of line 919.
SizeDecision(balance) ==
  IF balance = BalanceError THEN Reject("Pre-check failed")
  ELSE LET buyAmount == balance.calculatedBuyAmount
       IN IF buyAmount <= 0 THEN Reject("Buy amount is zero or negative")
          ELSE IF buyAmount < min_sol_amount THEN Reject("Buy amount below minimum")
          ELSE [shouldTrade |-> TRUE, reason |-> "All checks passed",
                buyAmount |-> buyAmount]

\* quickTradeCheck as a whole: the token, and the outcomes of its two
\* balance reads.
quickTradeCheck(tokenAddress, balance1, balance2) ==
  IF ~ValidTokenAddress(tokenAddress) THEN Reject("Invalid token address")
  ELSE IF ~Affordable(canAffordTrade(balance1))
       THEN Reject(canAffordTrade(balance1).reason)
       ELSE SizeDecision(balance2)

(* ------------------- Execution Coordinator (TradingEngine) ------------ *)
\* One executeTrade call past the in-flight gate.  passed is history: the
\* checks of the decision gate whose condition held in this call.
Flight(pc, tok, amount) ==
  [pc |-> pc, tok |-> tok, amount |-> amount, passed |-> {}]

One(fl) == SetToBag({fl})

ActiveFlights == BagCardinality(flights)

\* faulty variant: the gate lets every call through
InFlightGate_Open(flag) == FALSE

\* executeTrade line 774: the in-flight gate.
InFlightGate(flag) == flag

\* faulty variant: off by one, a sixth request is queued
QueueHasSpace_OffByOne(q) == Len(q) <= MAX_QUEUE_SIZE

\* executeTrade line 776.
QueueHasSpace(q) == Len(q) < MAX_QUEUE_SIZE

\* faulty variant: pop() instead of shift(), the newest request first
Shift_Newest(q) == [nextToken |-> q[Len(q)], rest |-> SubSeq(q, 1, Len(q) - 1)]

\* processQueue line 933: tradingQueue.shift().
Shift(q) == [nextToken |-> Head(q), rest |-> Tail(q)]

\* processQueue line 931, evaluated right after the finally-step cleared the
\* flag.
ProcessQueueReturns(q, flag) == Len(q) = 0 \/ flag

\* processQueue line 934: if (nextToken); the empty string is falsy.
Submits(nextToken) == nextToken # ""

\* executeTrade called by a client while the flag is set: enqueue or drop,
\* and return "Trading in progress"; otherwise set the flag and await the
\* decision gate.
ExecuteTradeCall(tok) ==
  /\ IF InFlightGate(isTrading)
     THEN /\ tradingQueue' = IF QueueHasSpace(tradingQueue)
                             THEN Append(tradingQueue, tok)
                             ELSE tradingQueue
          /\ lastOp' = [op |-> "executeTrade", tok |-> tok,
                        error |-> "Trading in progress", next |-> "",
                        queued |-> QueueHasSpace(tradingQueue)]
          /\ UNCHANGED <<isTrading, flights>>
     ELSE /\ isTrading' = TRUE
          /\ flights' = flights (+) One(Flight("check", tok, 0))
          /\ lastOp' = [op |-> "executeTrade", tok |-> tok,
                        error |-> "", next |-> "", queued |-> FALSE]
          /\ UNCHANGED tradingQueue
  /\ UNCHANGED <<rec, positions, entries, tasks, stops, ticks>>
  /\ UNCHANGED <<sales, sweep, notes, bm, feed, retry>>

\* The finally-step of executeTrade (lines 858-862) and the processQueue it
\* calls: clear the flag, then start the oldest queued token, if any.  The
\* started executeTrade runs up to its first await inside this step.
Finally(fl, error) ==
  LET others == flights (-) One(fl)
  IN IF ProcessQueueReturns(tradingQueue, FALSE)
     THEN /\ isTrading' = FALSE
          /\ flights' = others
          /\ lastOp' = [op |-> "return", tok |-> "", error |-> error,
                        next |-> "", queued |-> FALSE]
          /\ UNCHANGED tradingQueue
     ELSE IF Submits(Shift(tradingQueue).nextToken)
     THEN /\ isTrading' = TRUE
          /\ tradingQueue' = Shift(tradingQueue).rest
          /\ flights' = others (+) One(Flight("check", Shift(tradingQueue).nextToken, 0))
          /\ lastOp' = [op |-> "return", tok |-> "", error |-> error,
                        next |-> Shift(tradingQueue).nextToken, queued |-> FALSE]
     ELSE /\ isTrading' = FALSE
          /\ tradingQueue' = Shift(tradingQueue).rest
          /\ flights' = others
          /\ lastOp' = [op |-> "return", tok |-> "", error |-> error,
                        next |-> "", queued |-> FALSE]

\* quickTradeCheck up to the answer of canAffordTrade (lines 876-890): a
\* malformed token or an unaffordable trade ends the call with the gate's
\* reason (lines 793-800); otherwise the gate goes on to size the buy.
CheckDone(fl, balance) ==
  /\ BagIn(fl, flights) /\ fl.pc = "check"
  /\ IF ~ValidTokenAddress(fl.tok)
     THEN Finally(fl, "Invalid token address")
     ELSE IF ~Affordable(canAffordTrade(balance))
     THEN Finally(fl, canAffordTrade(balance).reason)
     ELSE /\ flights' = (flights (-) One(fl)) (+)
                          One([fl EXCEPT !.pc = "amount",
                                         !.passed = {"token"} \cup
                                            IF canAffordTrade(balance).canTrade
                                            THEN {"afford"} ELSE {}])
          /\ lastOp' = AwaitOp
          /\ UNCHANGED <<isTrading, tradingQueue>>
  /\ UNCHANGED <<rec, positions, entries, tasks, stops, ticks>>
  /\ UNCHANGED <<sales, sweep, notes, bm, feed, retry>>

\* quickTradeCheck from the answer of getOptimalBuyAmount on (lines
\* 893-924), and executeTrade up to its awaited buyToken (lines 793-806).
SizeDone(fl, balance) ==
  /\ BagIn(fl, flights) /\ fl.pc = "amount"
  /\ IF SizeDecision(balance).shouldTrade
     THEN /\ flights' = (flights (-) One(fl)) (+)
                          One([fl EXCEPT !.pc = "buy",
                                         !.amount = SizeDecision(balance).buyAmount])
          /\ lastOp' = AwaitOp
          /\ UNCHANGED <<isTrading, tradingQueue>>
     ELSE Finally(fl, SizeDecision(balance).reason)
  /\ UNCHANGED <<rec, positions, entries, tasks, stops, ticks>>
  /\ UNCHANGED <<sales, sweep, notes, bm, feed, retry>>

\* buyToken has answered, or the awaited call was rejected (catch, line 845).
BuyDone(fl, outcome) ==
  /\ BagIn(fl, flights) /\ fl.pc = "buy"
  /\ CASE outcome = "purchased" ->
            /\ flights' = (flights (-) One(fl)) (+) One([fl EXCEPT !.pc = "price"])
            /\ lastOp' = AwaitOp
            /\ UNCHANGED <<isTrading, tradingQueue>>
       [] outcome = "failed" -> Finally(fl, "Purchase failed")
       [] outcome = "threw" ->
            /\ flights' = (flights (-) One(fl)) (+) One([fl EXCEPT !.pc = "catch"])
            /\ lastOp' = AwaitOp
            /\ UNCHANGED <<isTrading, tradingQueue>>
  /\ UNCHANGED <<rec, positions, entries, tasks, stops, ticks>>
  /\ UNCHANGED <<sales, sweep, notes, bm, feed, retry>>

\* The price fetch after the buy has settled (lines 822-843): register the
\* position when a price is known, and return success.
PriceSettled(fl, price) ==
  /\ BagIn(fl, flights) /\ fl.pc = "price"
  /\ LET m0 == Store
         m == IF advanced_trading_enabled /\ price > 0
              THEN addPosition(m0, fl.tok, price, fl.amount)
              ELSE m0
     IN /\ rec' = Collect(m.rec, m.positions, tasks)
        /\ positions' = m.positions
        /\ entries' = Compact(m.entries, tasks)
  /\ Finally(fl, "")
  /\ UNCHANGED <<tasks, stops, ticks>>

\* The same, the detached sendTradeNotification (line 834) left out.
PriceDone(fl, price) ==
  /\ PriceSettled(fl, price)
  /\ UNCHANGED <<sales, sweep, notes, bm, feed, retry>>

\* The error notification of the catch block has been awaited.
CatchNotifyDone(fl) ==
  /\ BagIn(fl, flights) /\ fl.pc = "catch"
  /\ Finally(fl, "Unknown error")
  /\ UNCHANGED <<rec, positions, entries, tasks, stops, ticks>>
  /\ UNCHANGED <<sales, sweep, notes, bm, feed, retry>>

\* emergencyStop lines 980-981; the sweep it awaits afterwards sells at the
\* execution service and touches neither the coordinator nor the store.
EmergencyStop ==
  /\ stops < MaxStops
  /\ stops' = stops + 1
  /\ isTrading' = FALSE
  /\ tradingQueue' = << >>
  /\ lastOp' = [op |-> "emergencyStop", tok |-> "", error |-> "", next |-> "", queued |-> FALSE]
  /\ UNCHANGED <<rec, positions, entries, tasks, flights, ticks>>
  /\ UNCHANGED <<sales, sweep, notes, bm, feed, retry>>

FlightStates == BagToSet(flights)

TradeNext ==
  \/ \E tok \in Tokens : ExecuteTradeCall(tok)
  \/ \E fl \in FlightStates, b \in GetBalanceOutcomes(TradeBalances) : CheckDone(fl, b)
  \/ \E fl \in FlightStates, b \in GetBalanceOutcomes(TradeBalances) : SizeDone(fl, b)
  \/ \E fl \in FlightStates, o \in {"purchased", "failed", "threw"} : BuyDone(fl, o)
  \/ \E fl \in FlightStates, p \in EntryPrices \cup {NoPrice} : PriceDone(fl, p)
  \/ \E fl \in FlightStates : CatchNotifyDone(fl)
  \/ EmergencyStop

SpecTrade == Init /\ [][TradeNext]_vars

\* The coordinator under the scheduling the code guarantees: every awaited
\* call of an executeTrade in flight settles (the requests to the execution
\* service, the price service and the messaging service carry timeouts of
\* 12 s, 3 s and 10 s).  Clients and the operator are free to call or not.
Settles ==
  \/ \E fl \in FlightStates, b \in GetBalanceOutcomes(FairBalances) : CheckDone(fl, b)
  \/ \E fl \in FlightStates, b \in GetBalanceOutcomes(FairBalances) : SizeDone(fl, b)
  \/ \E fl \in FlightStates, o \in {"purchased", "failed", "threw"} : BuyDone(fl, o)
  \/ \E fl \in FlightStates, p \in EntryPrices \cup {NoPrice} : PriceDone(fl, p)
  \/ \E fl \in FlightStates : CatchNotifyDone(fl)

FairNext ==
  \/ \E tok \in FairTokens : ExecuteTradeCall(tok)
  \/ Settles
  \/ EmergencyStop

SpecFair == Init /\ [][FairNext]_vars /\ WF_vars(Settles)

(* --------------------------- the price feed --------------------------- *)
\* What the price service answers, by the comparisons the code makes on
\* it: no data (request failed, no pair, no priceUsd), a text that is not
\* a number, an infinite number, and numbers: negative, zero, ordinary,
\* exactly 1e10, above 1e10.  v is the number in thousandths; for the two
\* magnitudes that do not fit, cls carries the comparison with 1e10 and v
\* is a large stand-in.
RawPrices ==
  {[cls |-> "none", v |-> 0], [cls |-> "nan", v |-> 0], [cls |-> "inf", v |-> 0],
   [cls |-> "num", v |-> -1000], [cls |-> "num", v |-> 0],
   [cls |-> "num", v |-> 400], [cls |-> "num", v |-> 1400],
   [cls |-> "e10", v |-> 2000000], [cls |-> "above", v |-> 2000001]}

Null == [cls |-> "none", v |-> 0]

IsFinite(x) == x.cls \in {"num", "e10", "above"}

Positive(x) == x.cls \in {"inf", "e10", "above"} \/ (x.cls = "num" /\ x.v > 0)

Below1e10(x) == x.cls = "num"

Above1e10(x) == x.cls \in {"inf", "above"}

\* getPriceFromDexScreener (part_004 lines 115-131): no data, or a text that
\* parses to NaN or to an infinite number, is null.
getPriceFromDexScreener(raw) ==
  IF raw.cls \in {"none", "nan"} \/ ~IsFinite(raw) THEN Null ELSE raw

\* faulty variant: the feed does not test the sign
getTokenPrice_Unsigned(raw) ==
  LET price == getPriceFromDexScreener(raw)
  IN IF price # Null /\ IsFinite(price) /\ Below1e10(price)
     THEN price ELSE Null

\* getTokenPrice (part_004 lines 32-83): a price is returned only when it
\* is > 0, finite and < 1e10; everything else is null.
getTokenPrice(raw) ==
  LET price == getPriceFromDexScreener(raw)
  IN IF price # Null /\ Positive(price) /\ IsFinite(price) /\ Below1e10(price)
     THEN price ELSE Null

\* fetchTokenPrice (positionManager lines 410-424) returns instead of
\* throwing.
fetchTokenPriceReturns(price) ==
  /\ price # Null
  /\ Positive(price)
  /\ ~(Above1e10(price) \/ ~IsFinite(price))

\* updatePositionsWithRealPrices line 55: if (currentPrice).
Truthy(price) == price # Null /\ price.cls # "nan" /\ ~(price.cls = "num" /\ price.v = 0)

\* Whether the timer callback t calls updatePosition for what the service
\* answered: the monitor through fetchTokenPrice, the updater through its
\* truthiness test.
CallsUpdate(t, raw) ==
  IF t = "monitor" THEN fetchTokenPriceReturns(getTokenPrice(raw))
  ELSE Truthy(getTokenPrice(raw))

FeedOp(t, raw, updated) ==
  [op |-> "tick", tok |-> "", error |-> "", next |-> "", queued |-> FALSE,
   price |-> IF updated THEN raw.v ELSE NoPrice,
   timer |-> t, raw |-> raw, updated |-> updated]

\* The awaited getTokenPrice has settled, in either timer callback.
FeedDone(t, raw) ==
  FetchStep(t, IF CallsUpdate(t, raw) THEN raw.v ELSE NoPrice,
            FeedOp(t, raw, CallsUpdate(t, raw)))

FeedFire(t) == ticks < MaxFeedTicks /\ TimerFire(t)

FeedNext ==
  \/ \E tok \in Tokens, p \in EntryPrices, a \in EntryAmounts : OpenPosition(tok, p, a)
  \/ \E t \in TimerIds : FeedFire(t)
  \/ \E t \in TimerIds, raw \in RawPrices : FeedDone(t, raw)
  \/ \E t \in TimerIds, ok \in BOOLEAN : SlSellDone(t, ok)
  \/ \E t \in TimerIds : SlNotifyDone(t)
  \/ \E t \in TimerIds : BeNotifyDone(t)
  \/ \E t \in TimerIds : TrNotifyDone(t)
  \/ \E t \in TimerIds, ok \in BOOLEAN : TpSellDone(t, ok)
  \/ \E t \in TimerIds : TpNotifyDone(t)
  \/ \E t \in TimerIds : TpFailNotifyDone(t)

SpecFeed == Init /\ [][FeedNext]_vars

(* --------------------- price feed: failure tracking ------------------- *)
MAX_FAILURES_BEFORE_WARNING == 3

\* faulty variant: the warning is repeated on every failure from the third on
WarningDue_Repeats(newCount) == newCount >= MAX_FAILURES_BEFORE_WARNING

\* trackFailure line 166.
WarningDue(newCount) == newCount = MAX_FAILURES_BEFORE_WARNING

\* trackFailure (part_004 lines 159-173).
trackFailure(f, tok) ==
  LET newCount == f.failureCount[tok] + 1
  IN [f EXCEPT !.failureCount[tok] = newCount,
               !.alerts[tok] = IF WarningDue(newCount) THEN @ + 1 ELSE @]

\* A step of getTokenPrice for tok: served from the cache ("hit"), sent to
\* the price service ("miss"), settled with a price ("ok") or without one
\* ("fail"); alerted: this step sent the failure warning.
PriceOp(tok, outcome, alerted) ==
  [op |-> "getTokenPrice", tok |-> tok, error |-> "", next |-> "", queued |-> FALSE,
   outcome |-> outcome, alerted |-> alerted]

PriceFrame ==
  UNCHANGED <<rec, positions, entries, tasks, isTrading, tradingQueue,
              flights, stops, ticks, sales, sweep, notes, bm, retry>>

\* getTokenPrice up to its return from the cache or to its awaited request
\* (part_004 lines 32-40).
GetTokenPriceCall(tok) ==
  /\ IF feed.cached[tok]
     THEN /\ UNCHANGED feed
          /\ lastOp' = PriceOp(tok, "hit", FALSE)
     ELSE /\ BagCardinality(feed.calls) < MaxPriceCalls
          /\ feed.failureCount[tok] + CopiesIn(tok, feed.calls) < MaxFailureCount
          /\ feed' = [feed EXCEPT !.calls = @ (+) SetToBag({tok})]
          /\ lastOp' = PriceOp(tok, "miss", FALSE)
  /\ PriceFrame

\* getTokenPrice once the price service has answered (part_004 lines
\* 42-82): a valid price is cached and deletes the failure count, anything
\* else is tracked as a failure.
GetTokenPriceDone(tok, raw) ==
  /\ BagIn(tok, feed.calls)
  /\ LET f == [feed EXCEPT !.calls = @ (-) SetToBag({tok})]
     IN IF getTokenPrice(raw) # Null
        THEN /\ feed' = [f EXCEPT !.cached[tok] = TRUE,
                                  !.failureCount[tok] = 0,
                                  !.alerts[tok] = 0]
             /\ lastOp' = PriceOp(tok, "ok", FALSE)
        ELSE /\ feed' = trackFailure(f, tok)
             /\ lastOp' = PriceOp(tok, "fail",
                                  trackFailure(f, tok).alerts[tok] # f.alerts[tok])
  /\ PriceFrame

\* CACHE_DURATION has passed since the entry of tok was written (line 35).
CacheExpires(tok) ==
  /\ feed.cached[tok]
  /\ feed' = [feed EXCEPT !.cached[tok] = FALSE]
  /\ lastOp' = PriceOp(tok, "expired", FALSE)
  /\ PriceFrame

FailuresNext ==
  \/ \E tok \in Tokens : GetTokenPriceCall(tok)
  \/ \E tok \in Tokens, raw \in RawPrices : GetTokenPriceDone(tok, raw)
  \/ \E tok \in Tokens : CacheExpires(tok)

SpecFailures == Init /\ [][FailuresNext]_vars

(* ----------------------- emergencySellWithRetry ----------------------- *)
\* What EnhancedSniperooHandler.emergencySellAll can return: every sell of
\* the sweep is counted as successful or failed (part_003 lines 176-248).
SweepResults ==
  UNION {{[total |-> n, successful |-> n - f, failed |-> f] : f \in 0..n} :
           n \in 0..MaxSweepTotal}

\* emergencySellAll of emergencySell.ts (lines 22-113): with no tracked
\* position and no holding at the service it returns the empty result
\* without sweeping; otherwise it returns the sweep's result, or rethrows
\* what the sweep threw.  Its notifications cannot fail it.
emergencySellAll(holdings, outcome) ==
  IF PositionsSize(positions) = 0 /\ holdings = 0 THEN EmptyResult ELSE outcome

\* faulty variant: the loop ends one attempt early
AttemptsLeft_OneFewer(attempt, maxRetries) == attempt < maxRetries

\* emergencySellWithRetry lines 152 and 161: attempt < maxRetries + 1.
AttemptsLeft(attempt, maxRetries) == attempt < maxRetries + 1

\* emergencySellWithRetry lines 169-192: after the loop.
AfterLoop(r) ==
  IF r.lastResult # NoResult /\ r.lastResult.failed > 0
  THEN [r EXCEPT !.pc = "notify"]
  ELSE [r EXCEPT !.pc = "returned",
                 !.returned = IF r.lastResult # NoResult THEN r.lastResult
                              ELSE EmptyResult]

RetryOp(op) == [op |-> op, tok |-> "", error |-> "", next |-> "", queued |-> FALSE]

RetryFrame ==
  UNCHANGED <<rec, positions, entries, tasks, isTrading, tradingQueue,
              flights, stops, ticks, sales, sweep, notes, bm, feed>>

\* emergencySellWithRetry(maxRetries) up to its first await (lines
\* 133-143).
RetryCall(maxRetries) ==
  /\ retry.pc = "idle"
  /\ LET r == [retry EXCEPT !.maxRetries = maxRetries, !.attempt = 1]
     IN retry' = IF 1 <= maxRetries + 1 THEN [r EXCEPT !.pc = "attempt"]
                 ELSE AfterLoop(r)
  /\ lastOp' = RetryOp("emergencySellWithRetry")
  /\ RetryFrame

\* The awaited emergencySellAll() of an attempt has settled (lines
\* 143-166).
AttemptDone(holdings, outcome) ==
  /\ retry.pc = "attempt"
  /\ LET res == emergencySellAll(holdings, outcome)
         r == [retry EXCEPT !.history = Append(@, res),
                            !.lastResult = IF res = Threw THEN @ ELSE res]
     IN retry' =
          IF res # Threw /\ res.failed = 0
          THEN [r EXCEPT !.pc = "returned", !.returned = res]
          ELSE IF AttemptsLeft(r.attempt, r.maxRetries)
               THEN [r EXCEPT !.pc = "wait"]
               ELSE AfterLoop([r EXCEPT !.attempt = @ + 1])
  /\ lastOp' = RetryOp("attempt")
  /\ RetryFrame

\* The 2 s or 3 s pause before the next attempt is over (lines 154-155,
\* 163-164).
WaitDone ==
  /\ retry.pc = "wait"
  /\ retry' = [retry EXCEPT !.pc = "attempt", !.attempt = @ + 1]
  /\ lastOp' = RetryOp("wait")
  /\ RetryFrame

\* The notification of the incomplete sale has settled, delivered or not
\* (lines 173-184), and the call returns (lines 187-192).
IncompleteNotifyDone(delivered) ==
  /\ retry.pc = "notify"
  /\ retry' = [retry EXCEPT !.pc = "returned", !.returned = retry.lastResult]
  /\ lastOp' = RetryOp(IF delivered THEN "notified" ELSE "notifyFailed")
  /\ RetryFrame

RetrySteps ==
  \/ \E h \in {0, 1}, o \in SweepResults \cup {Threw} : AttemptDone(h, o)
  \/ WaitDone
  \/ \E delivered \in BOOLEAN : IncompleteNotifyDone(delivered)

RetryNext ==
  \/ \E n \in -1..MaxRetries : RetryCall(n)
  \/ RetrySteps

\* Every await of the call settles: the sweep, the timers and the
\* notification all return or throw in the end.
SpecRetry == Init /\ [][RetryNext]_vars /\ WF_vars(RetrySteps)

(* ---------------------------- notifications --------------------------- *)
\* How the one request to the messaging service ends: accepted, answered
\* with ok false, timed out after 10 s, or failed in the network.
SendOutcomes == {"ok", "notOk", "timeout", "threw"}

\* faulty variant: a failed request is rethrown to the caller
sendMessage_Rethrows(outcome) ==
  IF outcome = "ok" THEN "true"
  ELSE IF outcome = "notOk" THEN "false" ELSE "rejected"

\* sendMessage (part_005 lines 85-113): true when the service accepted the
\* message, false otherwise; the catch turns every failure into false.
sendMessage(outcome) == IF outcome = "ok" THEN "true" ELSE "false"

\* sendMessageToAll (lines 68-80) with one whitelisted chat, and the
\* notify* methods that end in it: "true" or "false", as sendMessage
\* settles.
sendMessageToAll(outcome) == sendMessage(outcome)

\* An awaited notification has settled inside updatePosition: a rejection
\* leaves updatePosition for the catch of the timer loop, which goes on
\* with the next position; a boolean is ignored and the handler continues.
AfterNotification(m, settled, continued) ==
  IF settled = "rejected" THEN Advance(m) ELSE continued

NotifyOp(pc, outcome) ==
  [op |-> "tick", tok |-> "", error |-> "", next |-> "", queued |-> FALSE,
   price |-> 0, notified |-> pc, outcome |-> outcome]

\* checkStopLoss lines 165-176.
SlNotifySettled(t, outcome) ==
  /\ UNCHANGED ticks
  /\ tasks[t].pc = "sl_notify"
  /\ CommitOp(t, AfterNotification(M(t), sendMessageToAll(outcome),
                                   Advance(removePosition(M(t), tasks[t].tok))),
              NotifyOp("sl_notify", outcome))

\* checkBreakevenMove lines 204-209.
BeNotifySettled(t, outcome) ==
  /\ UNCHANGED ticks
  /\ tasks[t].pc = "be_notify"
  /\ CommitOp(t, AfterNotification(M(t), sendMessageToAll(outcome), AfterBreakeven(M(t))),
              NotifyOp("be_notify", outcome))

\* checkTrailingStopActivation, its notifyTrailingActivated.
TrNotifySettled(t, outcome) ==
  /\ UNCHANGED ticks
  /\ tasks[t].pc = "tr_notify"
  /\ CommitOp(t, AfterNotification(M(t), sendMessageToAll(outcome),
                                   AfterTrailingActivation(M(t))),
              NotifyOp("tr_notify", outcome))

\* checkTakeProfitGrid lines 293-307.
TpNotifySettled(t, outcome) ==
  /\ UNCHANGED ticks
  /\ tasks[t].pc = "tp_notify"
  /\ LET m == M(t)
     IN CommitOp(t, AfterNotification(m, sendMessageToAll(outcome),
                       IF FullySold(m.rec[m.tk.ref])
                       THEN Advance(removePosition(m, m.tk.tok))
                       ELSE ScanLevels(m, m.tk.i + 1)),
                 NotifyOp("tp_notify", outcome))

\* checkTakeProfitGrid lines 312-316.
TpFailNotifySettled(t, outcome) ==
  /\ UNCHANGED ticks
  /\ tasks[t].pc = "tp_fail_notify"
  /\ CommitOp(t, AfterNotification(M(t), sendMessageToAll(outcome),
                                   ScanLevels(M(t), tasks[t].i + 1)),
              NotifyOp("tp_fail_notify", outcome))

\* executeTrade lines 822-843 with line 834: the notification of the buy is
\* started and not awaited.
TradeDone(fl, price) ==
  /\ notes < MaxNotes
  /\ PriceSettled(fl, price)
  /\ notes' = notes + 1
  /\ UNCHANGED <<sales, sweep, bm, feed, retry>>

\* How a detached sendTradeNotification ends: its balance read failed, or
\* its message was sent with one of the outcomes above; its own catch (line
\* 956) and the .catch of line 834 keep all of them to itself.
TradeNoteOutcomes == SendOutcomes \cup {"balanceFailed"}

TradeNotified(outcome) ==
  /\ notes > 0
  /\ notes' = notes - 1
  /\ lastOp' = [op |-> "tradeNotified", tok |-> "", error |-> "", next |-> "",
                queued |-> FALSE, outcome |-> outcome]
  /\ UNCHANGED <<rec, positions, entries, tasks, isTrading, tradingQueue, flights,
                 stops, ticks, sales, sweep, bm, feed, retry>>

NotifyFire(t) == ticks < MaxNotifyTicks /\ TimerFire(t)

\* A client asks for a token that is neither held nor was sold before; at
\* most one request waits in the queue.
NotifyCall(tok) ==
  /\ positions[tok] = 0 /\ sales[tok] = NoSales
  /\ tradingQueue = << >>
  /\ ExecuteTradeCall(tok)

NotifyNext ==
  \/ \E tok \in NotifyTokens : NotifyCall(tok)
  \/ \E fl \in FlightStates, b \in GetBalanceOutcomes(NotifyBalances) : CheckDone(fl, b)
  \/ \E fl \in FlightStates, b \in GetBalanceOutcomes(NotifyBalances) : SizeDone(fl, b)
  \/ \E fl \in FlightStates, o \in {"purchased", "failed", "threw"} : BuyDone(fl, o)
  \/ \E fl \in FlightStates, p \in NotifyEntryPrices \cup {NoPrice} : TradeDone(fl, p)
  \/ \E fl \in FlightStates : CatchNotifyDone(fl)
  \/ \E o \in TradeNoteOutcomes : TradeNotified(o)
  \/ \E t \in TimerIds : NotifyFire(t)
  \/ \E t \in TimerIds, p \in NotifyPrices \cup {NoPrice} : FetchDone(t, p)
  \/ \E t \in TimerIds, ok \in BOOLEAN : SlSellDone(t, ok)
  \/ \E t \in TimerIds, o \in SendOutcomes : SlNotifySettled(t, o)
  \/ \E t \in TimerIds, o \in SendOutcomes : BeNotifySettled(t, o)
  \/ \E t \in TimerIds, o \in SendOutcomes : TrNotifySettled(t, o)
  \/ \E t \in TimerIds, ok \in BOOLEAN : TpSellDone(t, ok)
  \/ \E t \in TimerIds, o \in SendOutcomes : TpNotifySettled(t, o)
  \/ \E t \in TimerIds, o \in SendOutcomes : TpFailNotifySettled(t, o)

SpecNotify == Init /\ [][NotifyNext]_vars

(* ---------------------- emergencyStop and its sweep ------------------- *)
\* getWalletHoldings has failed or was refused: it answers null (part_003
\* line 284) and the sweep sells nothing.
NoHoldings == {"null"}

\* What the awaited getWalletHoldings gives: null, or the list of the
\* wallet's positions.  The wallet holds at least the tokens of the open
\* positions; it may list others (closed or never registered ones).
HoldingsOutcomes ==
  {NoHoldings} \cup
  {L \in SUBSET Tokens : {tok \in Tokens : positions[tok] # 0} \subseteq L}

\* sellToken inside the sweep: the sale is accepted, refused, or the request
\* throws (caught at part_003 line 168, counted as failed either way).
SweepSellOutcomes == {"sold", "refused", "threw"}

\* emergencyStop lines 980-984: clear the flag and the queue, then await the
\* sweep, which first awaits the wallet's holdings.  open is history: the
\* positions that were open when emergencyStop was called.
EmergencyStopCall ==
  /\ stops < MaxStops
  /\ sweep.pc \in {"idle", "done"}
  /\ stops' = stops + 1
  /\ isTrading' = FALSE
  /\ tradingQueue' = << >>
  /\ sweep' = [IdleSweep EXCEPT !.pc = "holdings",
                                !.open = {tok \in Tokens : positions[tok] # 0}]
  /\ lastOp' = [op |-> "emergencyStop", tok |-> "", error |-> "", next |-> "", queued |-> FALSE]
  /\ UNCHANGED <<rec, positions, entries, tasks, flights, ticks, sales, notes, bm, feed, retry>>

\* emergencySellAll lines 188-239: no holdings, nothing to sell; otherwise
\* one sellToken of 100% per listed position, all started at once.
HoldingsDone(h) ==
  /\ sweep.pc = "holdings"
  /\ h \in HoldingsOutcomes
  /\ sweep' = IF h = NoHoldings \/ h = {}
               THEN [sweep EXCEPT !.pc = "notify"]
               ELSE [sweep EXCEPT !.pc = "selling", !.total = Cardinality(h),
                                  !.pending = h]
  /\ lastOp' = [AwaitOp EXCEPT !.op = "holdings"]
  /\ UNCHANGED <<rec, positions, entries, tasks, isTrading, tradingQueue,
                 flights, stops, ticks, sales, notes, bm, feed, retry>>

\* One sell of the sweep has settled (lines 199-236); when the last one has,
\* Promise.all resolves and emergencyStop goes on to its notification.
SweepSellDone(tok, outcome) ==
  /\ sweep.pc = "selling"
  /\ tok \in sweep.pending
  /\ sweep' = [sweep EXCEPT
                 !.pending = @ \ {tok},
                 !.successful = IF outcome = "sold" THEN @ + 1 ELSE @,
                 !.failed = IF outcome = "sold" THEN @ ELSE @ + 1,
                 !.details = @ \cup {[tokenAddress |-> tok,
                                      success |-> outcome = "sold"]},
                 !.pc = IF sweep.pending = {tok} THEN "notify" ELSE "selling"]
  /\ sales' = IF outcome = "sold"
               THEN [sales EXCEPT ![tok].sweep = @ + 100]
               ELSE sales
  /\ lastOp' = [AwaitOp EXCEPT !.op = "sweepSell", !.tok = tok, !.error = outcome]
  /\ UNCHANGED <<rec, positions, entries, tasks, isTrading, tradingQueue,
                 flights, stops, ticks, notes, bm, feed, retry>>

\* The notification of emergencyStop (lines 986-988) has been awaited,
\* delivered or not; emergencyStop returns.
SweepNotifyDone(delivered) ==
  /\ sweep.pc = "notify"
  /\ sweep' = [sweep EXCEPT !.pc = "done"]
  /\ lastOp' = [AwaitOp EXCEPT !.op = "emergencyStopReturned"]
  /\ UNCHANGED <<rec, positions, entries, tasks, isTrading, tradingQueue,
                 flights, stops, ticks, sales, notes, bm, feed, retry>>

SweepFire(t) == ticks < MaxSweepTicks /\ TimerFire(t)

SweepNext ==
  \/ \E tok \in Tokens, p \in EntryPrices, a \in EntryAmounts : OpenPosition(tok, p, a)
  \/ EmergencyStopCall
  \/ \E h \in HoldingsOutcomes : HoldingsDone(h)
  \/ \E tok \in Tokens, o \in SweepSellOutcomes : SweepSellDone(tok, o)
  \/ \E d \in BOOLEAN : SweepNotifyDone(d)
  \/ \E t \in TimerIds : SweepFire(t)
  \/ \E t \in TimerIds, p \in SweepPrices \cup {NoPrice} : FetchDone(t, p)
  \/ \E t \in TimerIds, ok \in BOOLEAN : SlSellDone(t, ok)
  \/ \E t \in TimerIds : SlNotifyDone(t)
  \/ \E t \in TimerIds : BeNotifyDone(t)
  \/ \E t \in TimerIds : TrNotifyDone(t)
  \/ \E t \in TimerIds, ok \in BOOLEAN : TpSellDone(t, ok)
  \/ \E t \in TimerIds : TpNotifyDone(t)
  \/ \E t \in TimerIds : TpFailNotifyDone(t)

SpecSweep == Init /\ [][SweepNext]_vars

(* ----------- the coordinator and the timers on the same token --------- *)
LifeFire(t) == ticks < MaxLifeTicks /\ TimerFire(t)

LifeNext ==
  \/ \E tok \in TickTokens : ExecuteTradeCall(tok)
  \/ \E fl \in FlightStates, b \in GetBalanceOutcomes(TradeBalances) : CheckDone(fl, b)
  \/ \E fl \in FlightStates, b \in GetBalanceOutcomes(TradeBalances) : SizeDone(fl, b)
  \/ \E fl \in FlightStates, o \in {"purchased", "failed", "threw"} : BuyDone(fl, o)
  \/ \E fl \in FlightStates, p \in EntryPrices \cup {NoPrice} : PriceDone(fl, p)
  \/ \E fl \in FlightStates : CatchNotifyDone(fl)
  \/ EmergencyStop
  \/ \E t \in TimerIds : LifeFire(t)
  \/ \E t \in TimerIds, p \in LifePrices \cup {NoPrice} : FetchDone(t, p)
  \/ \E t \in TimerIds, ok \in BOOLEAN : SlSellDone(t, ok)
  \/ \E t \in TimerIds : SlNotifyDone(t)
  \/ \E t \in TimerIds : BeNotifyDone(t)
  \/ \E t \in TimerIds : TrNotifyDone(t)
  \/ \E t \in TimerIds, ok \in BOOLEAN : TpSellDone(t, ok)
  \/ \E t \in TimerIds : TpNotifyDone(t)
  \/ \E t \in TimerIds : TpFailNotifyDone(t)

SpecLife == Init /\ [][LifeNext]_vars

(* ------------- the decision gate and the balance check, called alone --- *)
\* faulty variant: the pre-check also puts the token on the queue
CanTrade_Enqueues(tok, balance1, balance2) ==
  /\ lastOp' = [op |-> "canTrade", tok |-> tok,
                error |-> quickTradeCheck(tok, balance1, balance2).reason,
                next |-> "", queued |-> FALSE,
                decision |-> quickTradeCheck(tok, balance1, balance2),
                balance1 |-> balance1, balance2 |-> balance2]
  /\ tradingQueue' = Append(tradingQueue, tok)
  /\ UNCHANGED <<rec, positions, entries, tasks, isTrading, flights, stops, ticks>>
  /\ UNCHANGED <<sales, sweep, notes, bm, feed, retry>>

\* canTrade (line 868), the pre-check of the transaction handler: the
\* decision is all it produces.
CanTrade(tok, balance1, balance2) ==
  /\ lastOp' = [op |-> "canTrade", tok |-> tok,
                error |-> quickTradeCheck(tok, balance1, balance2).reason,
                next |-> "", queued |-> FALSE,
                decision |-> quickTradeCheck(tok, balance1, balance2),
                balance1 |-> balance1, balance2 |-> balance2]
  /\ UNCHANGED <<rec, positions, entries, tasks, isTrading, tradingQueue,
                 flights, stops, ticks>>
  /\ UNCHANGED <<sales, sweep, notes, bm, feed, retry>>

\* canAffordTrade called on its own (health report, balance test).
CanAffordTrade(balance) ==
  /\ lastOp' = [op |-> "canAffordTrade", tok |-> "",
                error |-> canAffordTrade(balance).reason,
                next |-> "", queued |-> FALSE,
                canTrade |-> canAffordTrade(balance).canTrade,
                balance |-> balance]
  /\ UNCHANGED <<rec, positions, entries, tasks, isTrading, tradingQueue,
                 flights, stops, ticks>>
  /\ UNCHANGED <<sales, sweep, notes, bm, feed, retry>>

GateNext ==
  \/ \E tok \in GateTokens : ExecuteTradeCall(tok)
  \/ \E fl \in FlightStates, b \in GetBalanceOutcomes(Balances) : CheckDone(fl, b)
  \/ \E fl \in FlightStates, b \in GetBalanceOutcomes(Balances) : SizeDone(fl, b)
  \/ \E fl \in FlightStates, o \in {"purchased", "failed", "threw"} : BuyDone(fl, o)
  \/ \E fl \in FlightStates, p \in EntryPrices \cup {NoPrice} : PriceDone(fl, p)
  \/ \E fl \in FlightStates : CatchNotifyDone(fl)

SpecGate == Init /\ [][GateNext]_vars

DecisionNext ==
  \/ \E tok \in TickTokens : ExecuteTradeCall(tok)
  \/ \E fl \in FlightStates, b \in GetBalanceOutcomes(TradeBalances) : CheckDone(fl, b)
  \/ \E fl \in FlightStates, b \in GetBalanceOutcomes(TradeBalances) : SizeDone(fl, b)
  \/ \E fl \in FlightStates, o \in {"purchased", "failed", "threw"} : BuyDone(fl, o)
  \/ \E fl \in FlightStates, p \in EntryPrices \cup {NoPrice} : PriceDone(fl, p)
  \/ \E fl \in FlightStates : CatchNotifyDone(fl)
  \/ \E tok \in GateTokens, b1, b2 \in GetBalanceOutcomes(Balances) : CanTrade(tok, b1, b2)
  \/ \E b \in GetBalanceOutcomes(Balances) : CanAffordTrade(b)

SpecDecision == Init /\ [][DecisionNext]_vars

(* ------------------- BalanceManager: cache and health ----------------- *)
\* faulty variant: the thresholds are exclusive
getHealthStatus_Exclusive(balance) ==
  LET criticalThreshold == balance.reservedAmount * 2
      warningThreshold == balance.reservedAmount * 5
      possibleTrades == IF balance.calculatedBuyAmount > 0
                        THEN balance.availableForTrading \div balance.calculatedBuyAmount
                        ELSE 0
  IN [status |-> IF balance.solBalance < criticalThreshold THEN "critical"
                 ELSE IF balance.solBalance < warningThreshold \/ possibleTrades < 3
                      THEN "warning"
                      ELSE "healthy",
      possibleTrades |-> possibleTrades]

\* getHealthStatus lines 303-336, for the snapshot its getBalance returned.
getHealthStatus(balance) ==
  LET criticalThreshold == balance.reservedAmount * 2
      warningThreshold == balance.reservedAmount * 5
      possibleTrades == IF balance.calculatedBuyAmount > 0
                        THEN balance.availableForTrading \div balance.calculatedBuyAmount
                        ELSE 0
  IN [status |-> IF balance.solBalance <= criticalThreshold THEN "critical"
                 ELSE IF balance.solBalance <= warningThreshold \/ possibleTrades < 3
                      THEN "warning"
                      ELSE "healthy",
      possibleTrades |-> possibleTrades]

BalanceKinds == {"getBalance", "getHealthStatus"}

\* What a getBalance or getHealthStatus step did: answered from the cache
\* (hit), started a fetch (miss), stored and answered a fetched snapshot
\* (fetched), or rethrew the failure of its fetch (failed).
BalanceOp(kind, phase, forceRefresh, balance, at) ==
  [op |-> kind, tok |-> "", error |-> IF phase = "failed" THEN "threw" ELSE "",
   next |-> "", queued |-> FALSE, phase |-> phase, forceRefresh |-> forceRefresh,
   balance |-> balance, at |-> at,
   status |-> IF kind = "getHealthStatus" /\ phase \in {"hit", "fetched"}
              THEN getHealthStatus(balance).status ELSE ""]

\* faulty variant: a snapshot whose age equals the TTL is still served
CacheFresh_Inclusive(b, now) ==
  b.balanceCache # NoCache /\ (now - b.cacheTimestamp) <= CACHE_DURATION

\* getBalance line 45, without the forceRefresh test.
CacheFresh(b, now) ==
  b.balanceCache # NoCache /\ (now - b.cacheTimestamp) < CACHE_DURATION

BalanceFrame ==
  UNCHANGED <<rec, positions, entries, tasks, isTrading, tradingQueue,
              flights, stops, ticks, sales, sweep, notes, feed, retry>>

\* getBalance up to its return from the cache or to its awaited fetch (lines
\* 42-51); getHealthStatus starts with a getBalance() (line 303).
\* invalidated is history: clearCache ran and no getBalance was called since.
GetBalanceCall(kind, forceRefresh) ==
  /\ kind = "getHealthStatus" => ~forceRefresh
  /\ IF ~forceRefresh /\ CacheFresh(bm, bm.now)
     THEN /\ bm' = [bm EXCEPT !.invalidated = FALSE]
          /\ lastOp' = BalanceOp(kind, "hit", forceRefresh, bm.balanceCache, bm.now)
     ELSE /\ BagCardinality(bm.calls) < MaxBalanceCalls
          /\ bm' = [bm EXCEPT !.calls = @ (+) SetToBag({[kind |-> kind, now |-> bm.now]}),
                              !.invalidated = FALSE]
          /\ lastOp' = BalanceOp(kind, "miss", forceRefresh, NoCache, bm.now)
  /\ BalanceFrame

\* faulty variant: a failed fetch drops the cached snapshot
FetchBalanceDone_DropsCache(call, solBalance) ==
  /\ BagIn(call, bm.calls)
  /\ IF solBalance = FetchFailed
     THEN /\ bm' = [bm EXCEPT !.calls = @ (-) SetToBag({call}),
                              !.balanceCache = NoCache, !.cacheTimestamp = 0]
          /\ lastOp' = BalanceOp(call.kind, "failed", FALSE, NoCache, call.now)
     ELSE /\ bm' = [bm EXCEPT !.calls = @ (-) SetToBag({call}),
                              !.balanceCache = BalanceInfoIn(bm.mode, solBalance),
                              !.cacheTimestamp = call.now]
          /\ lastOp' = BalanceOp(call.kind, "fetched", FALSE,
                                 BalanceInfoIn(bm.mode, solBalance), call.now)
  /\ BalanceFrame

\* The awaited connection.getBalance has settled (lines 51-83): on success
\* the snapshot is built, stored with the time the call started, and
\* returned; on failure the error is rethrown and the cache is left alone.
FetchBalanceDone(call, solBalance) ==
  /\ BagIn(call, bm.calls)
  /\ IF solBalance = FetchFailed
     THEN /\ bm' = [bm EXCEPT !.calls = @ (-) SetToBag({call})]
          /\ lastOp' = BalanceOp(call.kind, "failed", FALSE, NoCache, call.now)
     ELSE /\ bm' = [bm EXCEPT !.calls = @ (-) SetToBag({call}),
                              !.balanceCache = BalanceInfoIn(bm.mode, solBalance),
                              !.cacheTimestamp = call.now]
          /\ lastOp' = BalanceOp(call.kind, "fetched", FALSE,
                                 BalanceInfoIn(bm.mode, solBalance), call.now)
  /\ BalanceFrame

\* clearCache (lines 192-196).
ClearCache ==
  /\ bm' = [bm EXCEPT !.balanceCache = NoCache, !.cacheTimestamp = 0,
                      !.invalidated = TRUE]
  /\ lastOp' = [AwaitOp EXCEPT !.op = "clearCache"]
  /\ BalanceFrame

\* Date.now() moves on.
ClockTick ==
  /\ bm.now < StartTime + MaxClockTicks * ClockStep
  /\ bm' = [bm EXCEPT !.now = @ + ClockStep]
  /\ lastOp' = [AwaitOp EXCEPT !.op = "clock"]
  /\ BalanceFrame

\* The manager is constructed under either buy mode of the configuration.
BalanceInit ==
  /\ rec = << >>
  /\ positions = [tok \in Tokens |-> 0]
  /\ entries = << >>
  /\ tasks = [t \in TimerIds |-> IdleTask]
  /\ isTrading = FALSE
  /\ tradingQueue = << >>
  /\ flights = EmptyBag
  /\ stops = 0
  /\ ticks = 0
  /\ lastOp = [op |-> "init", tok |-> "", error |-> "", next |-> "", queued |-> FALSE]
  /\ sales = [tok \in Tokens |-> NoSales]
  /\ sweep = IdleSweep
  /\ notes = 0
  /\ bm \in {NewBalanceManager(mode) : mode \in BuyModes}
  /\ feed = NewPriceFeed
  /\ retry = IdleRetry

BalanceCalls == BagToSet(bm.calls)

BalanceNext ==
  \/ \E kind \in BalanceKinds, f \in BOOLEAN : GetBalanceCall(kind, f)
  \/ \E c \in BalanceCalls, b \in WalletBalances \cup {FetchFailed} : FetchBalanceDone(c, b)
  \/ ClearCache
  \/ ClockTick

SpecBalance == BalanceInit /\ [][BalanceNext]_vars

(* ============================== claims ================================ *)
Live(r, g) == g \in 1..Len(r) /\ r[g] # Collected

InitialStopLoss(pos) == pos.entryPrice * (100 - initial_stop_loss_percent)

InUpdate == {"sl_sell", "sl_notify", "be_notify", "tr_notify",
             "tp_sell", "tp_notify", "tp_fail_notify"}

\* C1: once the currentStopLoss of a position has risen above its initial
\* value entryPrice * (1 - initial_stop_loss_percent/100), no step of any
\* tick lowers it, whatever the prices and the sell outcomes.
C1_StopLossNeverLowered ==
  [][\A g \in 1..Len(rec) :
       (/\ lastOp'.op = "tick"
        /\ Live(rec, g) /\ Live(rec', g)
        /\ rec[g].currentStopLoss > InitialStopLoss(rec[g]))
       => rec'[g].currentStopLoss >= rec[g].currentStopLoss]_vars

\* C1 witness: the floor stands above its initial value and the trailing
\* candidate of the highest price lies below it (the update was refused).
C1_Witness ==
  \E g \in 1..Len(rec) :
    /\ Live(rec, g)
    /\ rec[g].isBreakevenMoved /\ rec[g].isTrailingActive
    /\ rec[g].currentStopLoss > InitialStopLoss(rec[g])
    /\ rec[g].highestPrice * (100 - trailing_distance_percent) < rec[g].currentStopLoss
    /\ \E t \in TimerIds : tasks[t].pc \in {"tp_sell", "tp_notify", "tp_fail_notify"}

\* C2: each take-profit level index appears in executedTpLevels at most
\* once, in every state of every position.
C2_LevelExecutedAtMostOnce ==
  \A g \in 1..Len(rec) :
    Live(rec, g) =>
      \A i \in 0..(Len(levels) - 1) : Count(rec[g].executedTpLevels, i) <= 1

\* C3: in every state of every position 0 <= totalSold <= 100.
C3_TotalSoldWithinBounds ==
  \A g \in 1..Len(rec) :
    Live(rec, g) => rec[g].totalSold >= 0 /\ rec[g].totalSold <= 100

\* C4 (as claimed): in a tick whose stop-loss check triggered, none of the
\* later steps (breakeven move, trailing activation, trailing update,
\* take-profit sell) runs, whatever the outcome of the liquidation sell.
C4_StopLossShortCircuits ==
  \A t \in TimerIds : tasks[t].slTriggered => tasks[t].laterSteps = {}

\* C4 (amended): in a tick whose stop-loss check triggered and whose
\* liquidation sell succeeded, none of the later steps runs: the tick only
\* awaits the notification and removes the position.
C4_SoldStopLossShortCircuits ==
  \A t \in TimerIds :
    tasks[t].slSold => tasks[t].laterSteps = {} /\ tasks[t].pc = "sl_notify"

\* C4 witness: a triggered stop-loss whose sell succeeded, on a position
\* that still has a take-profit level due at the tick's price.
C4_Witness ==
  \E t \in TimerIds :
    /\ tasks[t].slSold /\ tasks[t].pc = "sl_notify"
    /\ Live(rec, tasks[t].ref)
    /\ \E i \in 0..(Len(levels) - 1) : LevelDue(rec[tasks[t].ref], tasks[t], i)

\* C5: the highestPrice of a position is the maximum of its entry price and
\* of every price its ticks have observed, and it already holds the price
\* of a tick when that tick's stop-loss check has run (also when the sell
\* then fails).
C5_HighestIsMaxObserved ==
  /\ \A g \in 1..Len(rec) :
       Live(rec, g) => rec[g].highestPrice = rec[g].maxObserved
  /\ \A t \in TimerIds :
       (tasks[t].pc \in InUpdate /\ positions[tasks[t].tok] # 0)
       => rec[positions[tasks[t].tok]].highestPrice >= tasks[t].price

\* C5 witness: a tick below an earlier high is awaiting its stop-loss sell.
C5_Witness ==
  \E t \in TimerIds :
    /\ tasks[t].pc = "sl_sell"
    /\ Live(rec, tasks[t].ref)
    /\ rec[tasks[t].ref].highestPrice > rec[tasks[t].ref].entryPrice
    /\ tasks[t].price < rec[tasks[t].ref].highestPrice

\* C10: at no time are two updatePosition runs for the same token in
\* progress.
C10_TickMutualExclusion ==
  \A t, u \in TimerIds :
    (t # u /\ tasks[t].pc \in InUpdate /\ tasks[u].pc \in InUpdate)
    => tasks[t].tok # tasks[u].tok

\* C6: as long as only executeTrade calls and their completions have run
\* (no emergencyStop), at most one buy submission is in progress, and the
\* in-flight flag is set exactly while one is.
C6_SingleFlight ==
  stops = 0 => ActiveFlights <= 1 /\ (isTrading <=> ActiveFlights = 1)

\* C6 witness: a submission is in flight and two later calls are queued.
C6_Witness ==
  stops = 0 /\ ActiveFlights = 1 /\ Len(tradingQueue) >= 2

\* C7: executeTrade called while the in-flight flag is set starts nothing
\* and returns "Trading in progress"; the token is appended to the queue if
\* the queue holds fewer than 5 entries and dropped otherwise; the queue
\* never holds more than 5 entries.
C7_BusyCallQueuesOrDrops ==
  /\ [][(lastOp'.op = "executeTrade" /\ isTrading)
        => /\ lastOp'.error = "Trading in progress"
           /\ flights' = flights /\ isTrading'
           /\ rec' = rec /\ positions' = positions
           /\ tradingQueue' = IF Len(tradingQueue) < 5
                              THEN Append(tradingQueue, lastOp'.tok)
                              ELSE tradingQueue]_vars
  /\ [](Len(tradingQueue) <= 5)

\* C7 witness: a request has just been dropped at a full queue.
C7_Witness ==
  /\ lastOp.op = "executeTrade" /\ lastOp.error = "Trading in progress"
  /\ ~lastOp.queued /\ Len(tradingQueue) = 5 /\ isTrading

\* C8: every return of an executeTrade that had set the flag, whatever the
\* outcome, clears the flag and then starts exactly the oldest queued token:
\* that token leaves the queue, its submission is begun (awaiting its gate)
\* and the flag is set for it; with an empty queue the flag stays clear and
\* nothing is started.
C8_FinallyDrainsOldest ==
  [][lastOp'.op = "return"
     => IF tradingQueue # << >>
        THEN /\ tradingQueue' = Tail(tradingQueue)
             /\ lastOp'.next = Head(tradingQueue)
             /\ isTrading'
             /\ \E fl \in BagToSet(flights) :
                  flights' = (flights (-) One(fl))
                               (+) One(Flight("check", Head(tradingQueue), 0))
        ELSE /\ tradingQueue' = << >>
             /\ lastOp'.next = ""
             /\ ~isTrading'
             /\ \E fl \in BagToSet(flights) : flights' = flights (-) One(fl)]_vars

\* C8 witness: a call that threw has returned and the older of two
\* different queued tokens has been started.
C8_Witness ==
  /\ lastOp.op = "return" /\ lastOp.error = "Unknown error"
  /\ lastOp.next # "" /\ tradingQueue # << >>
  /\ tradingQueue[1] # lastOp.next
  /\ BagIn(Flight("check", lastOp.next, 0), flights)

\* C9: the in-flight flag is set whenever a submission is in progress, also
\* after emergencyStop, so that no second submission starts before the
\* first has finished.
C9_FlagSurvivesEmergencyStop ==
  /\ ActiveFlights > 0 => isTrading
  /\ ActiveFlights <= 1

\* C11: canAffordTrade answers canTrade = false when the balance is below
\* the reserve, when availableForTrading is 0 and when the computed buy
\* amount is below the minimum, each case with its own reason; it answers
\* canTrade = true only when none of the three holds; the answer is a
\* function of the snapshot alone.
C11_CanAffordTrade ==
  lastOp.op = "canAffordTrade" /\ lastOp.balance # BalanceError =>
    LET b == lastOp.balance
        belowReserve == b.solBalance < b.reservedAmount
        nothingLeft == b.availableForTrading = 0
        belowMinimum == b.calculatedBuyAmount < min_sol_amount
    IN /\ belowReserve => ~lastOp.canTrade
                           /\ lastOp.error = "Insufficient balance (need reserve)"
       /\ nothingLeft => ~lastOp.canTrade /\ b.calculatedBuyAmount <= 0
       /\ (nothingLeft /\ ~belowReserve)
            => lastOp.error = "Insufficient balance after reserve"
       /\ belowMinimum => ~lastOp.canTrade
       /\ (belowMinimum /\ ~nothingLeft)
            => lastOp.error = "Amount below minimum"
       /\ lastOp.canTrade <=> ~(belowReserve \/ nothingLeft \/ belowMinimum)
       /\ Cardinality({"Insufficient balance (need reserve)",
                       "Insufficient balance after reserve",
                       "Amount below minimum"}) = 3

\* C11 witness: a balance above the reserve whose remainder is below the
\* minimum buy has been refused.
C11_Witness ==
  /\ lastOp.op = "canAffordTrade" /\ lastOp.balance # BalanceError
  /\ lastOp.balance.availableForTrading > 0
  /\ lastOp.balance.calculatedBuyAmount < min_sol_amount
  /\ ~lastOp.canTrade

\* The step in which the price fetch of callback t returns a price.
Fetched(t) ==
  tasks[t].pc = "fetch" /\ tasks'[t] # tasks[t] /\ lastOp'.price # NoPrice

Sells == {"sl_sell", "tp_sell"}

\* C12: a position opened at 1.00 has the floor 0.40; a tick at 1.30 sells
\* level 0 and nothing else: 15%, and when the sell succeeds on a position
\* that has sold nothing yet, executedTpLevels = [0], totalSold = 15 and
\* remainingAmount = 0.85 * entryAmount; a tick at 1.30 on a position that
\* has level 0 recorded (and has seen no higher price) sells nothing.
C12_TakeProfitScenario ==
  [][/\ lastOp'.op = "addPosition" =>
          LET g == positions'[lastOp'.tok]
          IN rec'[g].entryPrice = 1000 => rec'[g].currentStopLoss = 400 * 100
     /\ \A t \in TimerIds :
          LET g == positions[tasks[t].tok]
              h == tasks[t].ref
          IN /\ ( /\ tasks'[t].pc = "tp_sell" /\ tasks[t].pc # "tp_sell"
                  /\ tasks'[t].price = 1300 /\ tasks'[t].entry = 1000)
                 => tasks'[t].i = 0 /\ tasks'[t].pct = 15
             /\ ( /\ tasks[t].pc = "tp_sell" /\ tasks'[t].pc = "tp_notify"
                  /\ tasks[t].price = 1300 /\ tasks[t].entry = 1000
                  /\ rec[h].totalSold = 0 /\ rec[h].executedTpLevels = << >>)
                 => /\ rec'[h].executedTpLevels = <<0>>
                    /\ rec'[h].totalSold = 15
                    /\ rec'[h].remainingAmount * 100 = 85 * rec'[h].entryAmount
             /\ ( /\ tasks[t].pc \in {"tp_notify", "tp_fail_notify"}
                  /\ tasks'[t] # tasks[t]
                  /\ tasks[t].price = 1300 /\ tasks[t].entry = 1000)
                 => tasks'[t].pc \notin Sells
             /\ ( /\ Fetched(t) /\ lastOp'.price = 1300 /\ g # 0
                  /\ rec[g].entryPrice = 1000 /\ rec[g].maxObserved <= 1300
                  /\ 0 \in Range(rec[g].executedTpLevels))
                 => /\ tasks'[t].pc \notin Sells
                    /\ positions'[tasks[t].tok] = g
                    /\ rec'[g].executedTpLevels = rec[g].executedTpLevels
                    /\ rec'[g].totalSold = rec[g].totalSold
                    /\ rec'[g].remainingAmount = rec[g].remainingAmount]_vars

\* C12 witness: level 0 was sold at 1.30 (no higher price was seen), and a
\* further tick at 1.30 has just ended without a sell.
C12_Witness ==
  /\ lastOp.op = "tick" /\ lastOp.price = 1300
  /\ \A t \in TimerIds : tasks[t].pc = "idle"
  /\ \E g \in 1..Len(rec) :
       /\ Live(rec, g) /\ rec[g].maxObserved = 1300
       /\ rec[g].executedTpLevels = <<0>> /\ rec[g].totalSold = 15
       /\ rec[g].remainingAmount * 100 = 85 * rec[g].entryAmount

\* C13: on a 1.00 entry a tick at 1.25 (not closed by the stop-loss) on a
\* position whose floor has not been moved sets currentStopLoss to 1.08 and
\* isBreakevenMoved; against the floor 1.08 a tick triggers the liquidation
\* (a sell of everything not yet sold) exactly when its price is <= 1.08.
C13_BreakevenScenario ==
  [][\A t \in TimerIds :
       LET g == positions[tasks[t].tok]
       IN /\ ( /\ Fetched(t) /\ lastOp'.price = 1250 /\ g # 0
               /\ rec[g].entryPrice = 1000 /\ ~rec[g].isBreakevenMoved)
              => /\ rec'[g].currentStopLoss = 1080 * 100
                 /\ rec'[g].isBreakevenMoved
                 /\ tasks'[t].pc = "be_notify"
          /\ ( /\ Fetched(t) /\ g # 0
               /\ rec[g].entryPrice = 1000 /\ rec[g].isBreakevenMoved
               /\ rec[g].currentStopLoss = 1080 * 100)
              => /\ lastOp'.price \in {1080, 1079, 1050} => tasks'[t].pc = "sl_sell"
                 /\ tasks'[t].pc = "sl_sell" <=> lastOp'.price <= 1080
                 /\ tasks'[t].pc = "sl_sell"
                      => tasks'[t].pct = 100 - rec[g].totalSold]_vars

\* C13 witness: the floor was moved to 1.08 and a tick at 1.079 awaits the
\* liquidation sell.
C13_Witness ==
  \E t \in TimerIds :
    /\ tasks[t].pc = "sl_sell" /\ tasks[t].price = 1079
    /\ Live(rec, tasks[t].ref)
    /\ rec[tasks[t].ref].isBreakevenMoved
    /\ rec[tasks[t].ref].currentStopLoss = 1080 * 100

\* C14: on a 1.00 entry the tick that saw the price 2.00 leaves trailing
\* active with currentStopLoss = 1.50; against that floor a tick triggers
\* the liquidation exactly when its price is <= 1.50, so at 1.00 and at
\* 1.50, both above the floor 0.40 of the opening.
C14_TrailingScenario ==
  [][\A t \in TimerIds :
       LET g == positions[tasks[t].tok]
       IN /\ ( /\ tasks[t].pc = "tr_notify" /\ tasks'[t] # tasks[t]
               /\ tasks[t].price = 2000 /\ g # 0
               /\ rec[g].entryPrice = 1000 /\ rec[g].highestPrice = 2000)
              => /\ rec'[g].isTrailingActive
                 /\ rec'[g].currentStopLoss = 1500 * 100
          /\ ( /\ Fetched(t) /\ g # 0
               /\ rec[g].entryPrice = 1000 /\ rec[g].isTrailingActive
               /\ rec[g].highestPrice = 2000
               /\ rec[g].currentStopLoss = 1500 * 100)
              => /\ lastOp'.price \in {1000, 1500} => tasks'[t].pc = "sl_sell"
                 /\ tasks'[t].pc = "sl_sell" <=> lastOp'.price <= 1500]_vars

\* C14 witness: after a high of 2.00 a tick at 1.00 awaits the liquidation
\* sell against the floor 1.50.
C14_Witness ==
  \E t \in TimerIds :
    /\ tasks[t].pc = "sl_sell" /\ tasks[t].price = 1000
    /\ Live(rec, tasks[t].ref)
    /\ rec[tasks[t].ref].isTrailingActive
    /\ rec[tasks[t].ref].highestPrice = 2000
    /\ rec[tasks[t].ref].currentStopLoss = 1500 * 100

\* The levels of the ladder that a tick at this price finds due.
DueLevels(pos, price) ==
  {i \in 0..(Len(levels) - 1) :
     /\ \A k \in 1..Len(pos.executedTpLevels) : pos.executedTpLevels[k] # i
     /\ (price - pos.entryPrice) * 100 >= levels[i + 1].profit_percent * pos.entryPrice}

\* C15: the step in which a take-profit sell fails changes no position (the
\* level is not recorded, totalSold and remainingAmount stay) and goes on
\* to the failure alert; and a tick that reaches the ladder (it was not
\* closed by the stop-loss) with levels due and not recorded asks for the
\* sell of the lowest of them, so a failed level is tried again.
C15_FailedTakeProfitLeavesLevel ==
  [][\A t \in TimerIds :
       /\ (tasks[t].pc = "tp_sell" /\ tasks'[t] # tasks[t])
            => tasks'[t].pc \in {"tp_notify", "tp_fail_notify"}
       /\ (tasks[t].pc = "tp_sell" /\ tasks'[t].pc = "tp_fail_notify")
            => rec' = rec /\ positions' = positions /\ tasks'[t].i = tasks[t].i
       /\ ( /\ tasks[t].pc \in {"fetch", "sl_sell", "be_notify", "tr_notify"}
            /\ tasks'[t] # tasks[t]
            /\ tasks'[t].pc \notin {"sl_sell", "sl_notify", "be_notify", "tr_notify"}
            /\ positions'[tasks[t].tok] # 0
            /\ tasks[t].pc = "fetch" => lastOp'.price # NoPrice)
            => LET price == IF tasks[t].pc = "fetch" THEN lastOp'.price
                            ELSE tasks[t].price
                   due == DueLevels(rec'[positions'[tasks[t].tok]], price)
               IN due # {} => /\ tasks'[t].pc = "tp_sell"
                              /\ \A i \in due : tasks'[t].i <= i
                              /\ tasks'[t].i \in due]_vars

\* C15 witness: level 0 was due at an earlier tick (price 9.00) and is not
\* recorded; a later tick at 1.40, running alone, asks for its sell again.
C15_Witness ==
  \E t \in TimerIds :
    /\ tasks[t].pc = "tp_sell" /\ tasks[t].i = 0 /\ tasks[t].price = 1400
    /\ \A u \in TimerIds \ {t} : tasks[u].pc = "idle"
    /\ Live(rec, tasks[t].ref)
    /\ rec[tasks[t].ref].maxObserved = 9000
    /\ rec[tasks[t].ref].executedTpLevels = << >>

\* C16 (as claimed): a triggered stop-loss asks for the sell of
\* 100 - totalSold; after a failed liquidation the position stays in the
\* store with totalSold, executedTpLevels, remainingAmount and
\* currentStopLoss as they were, through the rest of that tick.
C16_FailedLiquidationKeepsState ==
  [][\A t \in TimerIds :
       LET h == tasks[t].ref
       IN (/\ tasks[t].slTriggered /\ ~tasks[t].slSold
           /\ tasks'[t] # tasks[t] /\ Live(rec, h))
          => /\ positions' = positions
             /\ rec'[h].totalSold = rec[h].totalSold
             /\ rec'[h].executedTpLevels = rec[h].executedTpLevels
             /\ rec'[h].remainingAmount = rec[h].remainingAmount
             /\ rec'[h].currentStopLoss = rec[h].currentStopLoss]_vars

\* C16 (amended): every tick whose price is <= currentStopLoss asks for the
\* sell of 100 - totalSold; when that sell succeeds the position is removed
\* once the notification has been awaited; when it fails the step removes
\* nothing, leaves totalSold, executedTpLevels and remainingAmount as they
\* were and does not lower currentStopLoss (the later steps of the same tick
\* still run).
C16_LiquidationSellsRemainder ==
  [][\A t \in TimerIds :
       LET g == positions[tasks[t].tok]
       IN /\ (Fetched(t) /\ g # 0)
              => (tasks'[t].pc = "sl_sell"
                    <=> lastOp'.price * 100 <= rec[g].currentStopLoss)
          /\ (tasks'[t].pc = "sl_sell" /\ tasks[t].pc # "sl_sell")
              => g # 0 /\ tasks'[t].pct = 100 - rec[g].totalSold
          /\ (tasks[t].pc = "sl_sell" /\ tasks'[t].pc = "sl_notify")
              => positions' = positions /\ rec' = rec
          /\ (tasks[t].pc = "sl_sell" /\ tasks'[t] # tasks[t]
                /\ tasks'[t].pc # "sl_notify")
              => /\ positions' = positions
                 /\ g # 0 =>
                      /\ rec'[g].totalSold = rec[g].totalSold
                      /\ rec'[g].executedTpLevels = rec[g].executedTpLevels
                      /\ rec'[g].remainingAmount = rec[g].remainingAmount
                      /\ rec'[g].currentStopLoss >= rec[g].currentStopLoss
          /\ (tasks[t].pc = "sl_notify" /\ tasks'[t] # tasks[t])
              => positions'[tasks[t].tok] = 0]_vars

\* C16 witness: a liquidation of the remainder of a partly sold position
\* has failed; the position is still in the store and the tick goes on.
C16_Witness ==
  \E t \in TimerIds :
    /\ tasks[t].slTriggered /\ ~tasks[t].slSold /\ tasks[t].pc = "tp_sell"
    /\ positions[tasks[t].tok] # 0
    /\ rec[positions[tasks[t].tok]].totalSold > 0

\* C17: a position leaves the store only in the step after a successful
\* stop-loss liquidation or after a take-profit sell that brought totalSold
\* to the full-exit threshold, and that tick issues no further sell; no
\* step other than a tick removes or changes a position; a tick is never
\* started for a token that is not in the store, and a tick that finds its
\* token gone issues no sell.
C17_RemovedOnlyBySale ==
  [][/\ \A tok \in Tokens :
          positions[tok] # 0 =>
            /\ positions'[tok] = 0 =>
                 \E t \in TimerIds :
                   /\ tasks[t].tok = tok /\ tasks'[t] # tasks[t]
                   /\ tasks'[t].pc \notin Sells
                   /\ \/ tasks[t].pc = "sl_notify" /\ tasks[t].slSold
                      \/ tasks[t].pc = "tp_notify" /\ FullySold(rec[tasks[t].ref])
            /\ lastOp'.op # "tick" =>
                 /\ positions'[tok] = positions[tok]
                 /\ rec'[positions[tok]] = rec[positions[tok]]
     /\ \A t \in TimerIds :
          /\ (tasks'[t].pc = "fetch" /\ tasks[t].pc # "fetch")
               => positions'[tasks'[t].tok] # 0
          /\ (Fetched(t) /\ positions[tasks[t].tok] = 0)
               => tasks'[t].pc \notin Sells /\ positions' = positions]_vars

\* The executeTrade calls that left with this step.
Returned(fl) == CopiesIn(fl, flights') < CopiesIn(fl, flights)

\* C18: an executeTrade that returns success has registered a new Position
\* for its token, with the amount it bought, before returning; and a
\* Position is registered only by an executeTrade returning success.
C18_ConfirmedBuyIsRegistered ==
  [][/\ \A fl \in BagToSet(flights) :
          (/\ fl.pc = "price" /\ Returned(fl)
           /\ lastOp'.op = "return" /\ lastOp'.error = "")
          => /\ positions'[fl.tok] # 0
             /\ rec'[positions'[fl.tok]].entryAmount = fl.amount
             /\ rec'[positions'[fl.tok]].totalSold = 0
     /\ \A tok \in Tokens :
          (positions'[tok] # 0 /\ positions'[tok] # positions[tok])
          => /\ lastOp'.op = "return" /\ lastOp'.error = ""
             /\ \E fl \in BagToSet(flights) :
                  fl.pc = "price" /\ fl.tok = tok /\ Returned(fl)]_vars

GateReasons ==
  {"Invalid token address", "Error checking balance",
   "Insufficient balance (need reserve)", "Insufficient balance after reserve",
   "Amount below minimum", "Pre-check failed",
   "Buy amount is zero or negative", "Buy amount below minimum"}

\* C19: a call is past the decision gate (its buy submitted) only with a
\* well-formed token, after canAffordTrade answered yes in that call, and
\* with a buy amount > 0 and >= the minimum; a call that the gate rejects
\* returns with the gate's reason as its error and no buy is submitted.
C19_BuyOnlyThroughGate ==
  /\ [](\A fl \in BagToSet(flights) :
          fl.pc \in {"buy", "price", "catch"}
          => /\ TokenText(fl.tok).trimmed # 0
             /\ TokenText(fl.tok).length >= 32
             /\ fl.passed = {"token", "afford"}
             /\ fl.amount > 0 /\ fl.amount >= min_sol_amount)
  /\ [][\A fl \in BagToSet(flights) :
          (fl.pc \in {"check", "amount"} /\ Returned(fl) /\ lastOp'.op = "return")
          => /\ lastOp'.error \in GateReasons
             /\ \A g \in BagToSet(flights') : g.pc # "buy"]_vars

\* C19 witness: a buy of exactly the minimum amount is submitted while a
\* malformed token waits in the queue.
C19_Witness ==
  /\ \E fl \in BagToSet(flights) : fl.pc = "buy" /\ fl.amount = min_sol_amount
  /\ \E k \in 1..Len(tradingQueue) : tradingQueue[k] \in Malformed

\* C20: a canTrade / quickTradeCheck call changes neither the in-flight
\* flag, nor the queue, nor the calls in progress, nor the Position Store,
\* nor the timers' callbacks; it always yields a decision, and with a
\* failed balance fetch that decision is shouldTrade = false.
C20_GateHasNoEffect ==
  [][lastOp'.op = "canTrade"
     => /\ UNCHANGED <<isTrading, tradingQueue, flights, rec, positions,
                       entries, tasks>>
        /\ lastOp'.decision.shouldTrade \in BOOLEAN
        /\ lastOp'.decision.shouldTrade
             => /\ lastOp'.balance1 # BalanceError
                /\ lastOp'.balance2 # BalanceError
                /\ lastOp'.decision.buyAmount = lastOp'.balance2.calculatedBuyAmount
        /\ ~lastOp'.decision.shouldTrade
             => lastOp'.decision.reason \in GateReasons]_vars

\* C20 witness: while a call is in flight, a token is queued and a position
\* is open, the gate was asked, its second balance fetch failed, and it
\* answered shouldTrade = false.
C20_Witness ==
  /\ lastOp.op = "canTrade" /\ ~lastOp.decision.shouldTrade
  /\ lastOp.balance1 # BalanceError /\ canAffordTrade(lastOp.balance1).canTrade
  /\ lastOp.balance2 = BalanceError
  /\ isTrading /\ tradingQueue # << >> /\ ActiveFlights = 1
  /\ \E tok \in Tokens : positions[tok] # 0

\* C21: emergencyStop empties the queue and clears the in-flight flag; when
\* it returns, every position that was open when it was called and is still
\* open has been the object of a sell of the sweep (one detail entry per
\* position), and successful + failed = total; a sell that fails or throws
\* leaves the other sells of the sweep pending.
C21_SweepCoversEveryPosition ==
  [][/\ lastOp'.op = "emergencyStop" => ~isTrading' /\ tradingQueue' = << >>
     /\ (sweep.pc = "selling" /\ sweep' # sweep)
          => /\ sweep'.pc \in {"selling", "notify"}
             /\ Cardinality(sweep.pending \ sweep'.pending) = 1
             /\ sweep'.pc = "notify" <=> sweep'.pending = {}
     /\ (sweep.pc # "done" /\ sweep'.pc = "done")
          => /\ \A tok \in sweep'.open :
                  positions'[tok] # 0
                  => \E d \in sweep'.details : d.tokenAddress = tok
             /\ sweep'.successful + sweep'.failed = sweep'.total
             /\ Cardinality(sweep'.details) = sweep'.total]_vars

\* C22: for every token, the sells the execution service accepted add up to
\* at most 100% of the position, and the sells of a sweep and the sells of
\* the ticks (stop-loss, take-profit) are never both accepted.
C22_LiquidatedAtMostOnce ==
  \A tok \in Tokens :
    /\ sales[tok].tick + sales[tok].sweep <= 100
    /\ ~(sales[tok].tick > 0 /\ sales[tok].sweep > 0)

\* The snapshots the balance manager holds or has just returned.
Snapshots ==
  ({bm.balanceCache} \cup
   (IF lastOp.op \in BalanceKinds /\ lastOp.phase \in {"hit", "fetched"}
    THEN {lastOp.balance} ELSE {})) \ {NoCache}

\* C23: in every snapshot the buy amount follows the sizing policy: in
\* fixed mode min(fixedAmount, available); in percentage mode
\* min(max(minAmount, min(available * pct / 100, maxAmount)), available);
\* and in both modes 0 <= buyAmount <= availableForTrading, so that the
\* balance less the buy amount never falls under the reserve it had.
C23_SizingPolicy ==
  \A b \in Snapshots :
    LET a == b.availableForTrading
        amount == b.calculatedBuyAmount
    IN /\ bm.mode = "fixed" => amount = Min(sol_amount, a)
       /\ bm.mode = "percentage"
            => amount = Min(Max(min_sol_amount,
                                Min((a * balance_percentage) \div 100, max_sol_amount)), a)
       /\ 0 <= amount /\ amount <= a
       /\ b.solBalance >= reserve_sol => b.solBalance - amount >= reserve_sol

\* C23 witness: in percentage mode a remainder below the minimum buy is
\* cached with a buy amount cut down to it, and in fixed mode the fixed
\* amount is cached for a large balance.
C23_Witness ==
  /\ bm.balanceCache # NoCache
  /\ \/ /\ bm.mode = "percentage"
        /\ bm.balanceCache.availableForTrading = 400
        /\ bm.balanceCache.calculatedBuyAmount = 400
     \/ /\ bm.mode = "fixed"
        /\ bm.balanceCache.solBalance = 700000
        /\ bm.balanceCache.calculatedBuyAmount = sol_amount

\* A step that is the call of getBalance (or of getHealthStatus).
CallStep == lastOp'.op \in BalanceKinds /\ lastOp'.phase \in {"hit", "miss"}

\* C24: a getBalance call answers from the cache, without fetching, exactly
\* when forceRefresh is not set, a snapshot is cached and its age is below
\* the TTL; the first call after clearCache, a call with forceRefresh and a
\* call at an age >= TTL start a fetch, and the fetch that succeeds
\* replaces the cache and its timestamp.
C24_CacheHitOrFreshFetch ==
  [][/\ CallStep
          => /\ lastOp'.phase = "hit"
                  <=> /\ ~lastOp'.forceRefresh
                      /\ bm.balanceCache # NoCache
                      /\ bm.now - bm.cacheTimestamp < CACHE_DURATION
             /\ lastOp'.phase = "hit"
                  => bm'.calls = bm.calls /\ lastOp'.balance = bm.balanceCache
             /\ lastOp'.phase = "miss"
                  => BagCardinality(bm'.calls) = BagCardinality(bm.calls) + 1
             /\ (\/ bm.invalidated
                 \/ lastOp'.forceRefresh
                 \/ bm.now - bm.cacheTimestamp >= CACHE_DURATION)
                  => lastOp'.phase = "miss"
     /\ (lastOp'.op \in BalanceKinds /\ lastOp'.phase = "fetched")
          => /\ bm'.balanceCache = lastOp'.balance
             /\ bm'.cacheTimestamp = lastOp'.at]_vars

\* C25: every cached snapshot is whole (availableForTrading is
\* max(0, solBalance - reservedAmount) and calculatedBuyAmount is computed
\* from that availableForTrading); the cache and its timestamp change
\* together, only when a fetch succeeds or clearCache runs; and a failed
\* fetch leaves both as they were and throws to the caller.
C25_SnapshotWhole ==
  /\ [](bm.balanceCache # NoCache
         => /\ bm.balanceCache.reservedAmount = reserve_sol
            /\ bm.balanceCache.availableForTrading =
                  Max(0, bm.balanceCache.solBalance - bm.balanceCache.reservedAmount)
            /\ bm.balanceCache.calculatedBuyAmount =
                  calculateBuyAmountIn(bm.mode, bm.balanceCache.availableForTrading))
  /\ [][ /\ (lastOp'.op \in BalanceKinds /\ lastOp'.phase = "failed")
              => /\ bm'.balanceCache = bm.balanceCache
                 /\ bm'.cacheTimestamp = bm.cacheTimestamp
                 /\ lastOp'.error = "threw"
         /\ (bm'.balanceCache # bm.balanceCache \/ bm'.cacheTimestamp # bm.cacheTimestamp)
              => \/ /\ lastOp'.op \in BalanceKinds /\ lastOp'.phase = "fetched"
                    /\ bm'.balanceCache = lastOp'.balance
                    /\ bm'.cacheTimestamp = lastOp'.at
                 \/ /\ lastOp'.op = "clearCache"
                    /\ bm'.balanceCache = NoCache /\ bm'.cacheTimestamp = 0]_vars

\* C25 witness: a fetch has just failed while a snapshot was cached, and the
\* snapshot is still there.
C25_Witness ==
  /\ lastOp.op \in BalanceKinds /\ lastOp.phase = "failed"
  /\ bm.balanceCache # NoCache
  /\ bm.cacheTimestamp < bm.now

\* C26: getHealthStatus answers critical when balance <= 2 * reserve;
\* otherwise warning when balance <= 5 * reserve or fewer than 3 trades are
\* affordable (floor(available / buyAmount), 0 when buyAmount is 0);
\* otherwise healthy.
C26_HealthClassification ==
  (lastOp.op = "getHealthStatus" /\ lastOp.phase \in {"hit", "fetched"})
  => LET b == lastOp.balance
         trades == IF b.calculatedBuyAmount = 0 THEN 0
                   ELSE b.availableForTrading \div b.calculatedBuyAmount
         critical == b.solBalance <= 2 * b.reservedAmount
         warning == b.solBalance <= 5 * b.reservedAmount \/ trades < 3
     IN /\ critical => lastOp.status = "critical"
        /\ (~critical /\ warning) => lastOp.status = "warning"
        /\ (~critical /\ ~warning) => lastOp.status = "healthy"

\* C26 witness: a balance of exactly five times the reserve is reported as
\* warning.
C26_Witness ==
  /\ lastOp.op = "getHealthStatus" /\ lastOp.phase \in {"hit", "fetched"}
  /\ lastOp.balance.solBalance = 5 * reserve_sol
  /\ lastOp.status = "warning"

\* The answers of the price service that are no valid price.
InvalidRaw(raw) ==
  \/ raw.cls \in {"none", "nan", "inf", "above"}
  \/ raw.cls = "num" /\ raw.v <= 0

\* C27: on both timer paths, when the price service answers null, a
\* non-positive, a non-finite or an above-1e10 value, updatePosition is not
\* called, no position changes, and the callback goes on with the next
\* position of the store (or ends when there is none); a call of
\* updatePosition always carries a positive, finite price of at most 1e10.
C27_InvalidPriceIsFetchFailure ==
  [][\A t \in TimerIds :
       (tasks[t].pc = "fetch" /\ tasks'[t] # tasks[t] /\ lastOp'.timer = t)
       => /\ InvalidRaw(lastOp'.raw)
               => /\ ~lastOp'.updated
                  /\ rec' = rec /\ positions' = positions /\ sales' = sales
                  /\ LET j == NextEntry([entries |-> entries], tasks[t].cursor)
                     IN IF j = 0 THEN tasks'[t].pc = "idle"
                        ELSE /\ tasks'[t].pc = "fetch"
                             /\ tasks'[t].tok = entries[j].tok
          /\ lastOp'.updated
               => /\ lastOp'.raw.cls = "num" /\ lastOp'.raw.v > 0
                  /\ lastOp'.price = lastOp'.raw.v]_vars

\* C27 witness: the updater received a negative price for the first of two
\* positions, left it alone and is fetching the price of the second.
C27_Witness ==
  /\ "raw" \in DOMAIN lastOp
  /\ lastOp.timer = "updater" /\ lastOp.raw = [cls |-> "num", v |-> -1000]
  /\ ~lastOp.updated
  /\ positions["tokA"] # 0 /\ positions["tokB"] # 0
  /\ tasks["updater"].pc = "fetch"
  /\ tasks["updater"].tok = entries[tasks["updater"].cursor].tok
  /\ tasks["updater"].cursor = 2

\* C28: however the delivery of a notification ends (accepted, refused,
\* timed out, network failure), the operation that sent it completes: when
\* the notification of a successful stop-loss sell settles the position is
\* removed; when the notification of a successful take-profit sell settles
\* the level is recorded and the callback continues with the next level
\* (or removes the fully sold position); executeTrade returns success
\* without waiting for its notification, leaving the flag set only for the
\* next queued token; and the settling of that detached notification
\* changes nothing of the coordinator or the store.
C28_NotificationNeverBlocks ==
  [][ /\ \A t \in TimerIds :
          (tasks[t].pc = "sl_notify" /\ tasks'[t] # tasks[t])
          => /\ positions'[tasks[t].tok] = 0
             /\ tasks'[t] = Advance(removePosition(M(t), tasks[t].tok)).tk
      /\ \A t \in TimerIds :
          (tasks[t].pc = "tp_notify" /\ tasks'[t] # tasks[t])
          => /\ tasks[t].i \in Range(rec[tasks[t].ref].executedTpLevels)
             /\ IF FullySold(rec[tasks[t].ref])
                THEN positions'[tasks[t].tok] = 0
                ELSE tasks'[t] = ScanLevels(M(t), tasks[t].i + 1).tk
      /\ \A fl \in FlightStates :
          (fl.pc = "price" /\ flights' # flights)
          => /\ lastOp'.op = "return" /\ lastOp'.error = ""
             /\ ~BagIn(fl, flights')
             /\ isTrading' = (lastOp'.next # "")
             /\ notes' = notes + 1
      /\ notes' < notes
          => UNCHANGED <<rec, positions, entries, tasks, isTrading, tradingQueue,
                         flights>> ]_vars

\* C28 witness: the notification of a stop-loss sell failed in the network
\* while the notification of the buy was still pending; the sell was
\* accepted, the position is gone and the coordinator is idle.
C28_Witness ==
  /\ "notified" \in DOMAIN lastOp
  /\ lastOp.notified = "sl_notify" /\ lastOp.outcome = "threw"
  /\ sales["tokA"].tick = 100 /\ positions["tokA"] = 0
  /\ notes = 1 /\ ~isTrading /\ flights = EmptyBag

\* The coordinator is Idle: no executeTrade in flight and the flag clear.
Idle == ~isTrading /\ flights = EmptyBag

\* From some point on no client calls executeTrade.
NoNewRequests == <>[][lastOp'.op # "executeTrade"]_vars

C30_OverlapSellsLevelOnce ==
  [][\A t \in TimerIds, u \in TimerIds :
       (/\ t # u
        /\ tasks[t].pc = "tp_sell" /\ tasks'[t].pc = "tp_notify"
        /\ tasks[u].pc # "idle" /\ tasks[u].pc # "fetch"
        /\ tasks[u].ref = tasks[t].ref)
       => /\ Count(rec'[tasks'[t].ref].executedTpLevels, tasks[t].i) = 1
          /\ rec'[tasks'[t].ref].totalSold <= 100]_vars

\* The step in which callback t, running alone, reaches the take-profit
\* ladder of a position that stays open: its stop-loss check did not close
\* the position and no notification is awaited before the ladder.
ReachesLadder(t) ==
  /\ tasks[t].pc \in {"fetch", "sl_sell", "be_notify", "tr_notify"}
  /\ tasks'[t] # tasks[t]
  /\ tasks'[t].pc \notin {"sl_sell", "sl_notify", "be_notify", "tr_notify"}
  /\ positions'[tasks[t].tok] # 0
  /\ tasks[t].pc = "fetch" => lastOp'.price # NoPrice
  /\ \A u \in TimerIds \ {t} : tasks[u].pc = "idle"

\* The price of the tick that callback t is running or has just started.
TickPrice(t) == IF tasks[t].pc = "fetch" THEN lastOp'.price ELSE tasks[t].price

\* The levels that were due at the highest price a position has seen and
\* are not recorded: with one callback running, the levels whose sell
\* failed, and the levels due for the first time on this very tick.
Unsold(pos) == DueLevels(pos, pos.maxObserved)

\* C31 (as claimed): a tick that reaches the ladder of a position with a
\* level that was due before and is not recorded asks for the sell of such
\* a level whatever the current price.
C31_RetryUnconditional ==
  [][\A t \in TimerIds :
       ReachesLadder(t)
       => LET pos == rec'[positions'[tasks[t].tok]]
          IN Unsold(pos) # {}
             => tasks'[t].pc = "tp_sell" /\ tasks'[t].i \in Unsold(pos)]_vars

\* C31 (amended): the ladder is evaluated afresh on every tick: a tick
\* that reaches it asks for a sell exactly when some level is not recorded
\* and the current profit is at or above its threshold, beginning with the
\* lowest such level and going on to the next one after each sell, failed
\* or not; a level whose sell failed is therefore tried again on the next
\* tick only if the profit of that tick still reaches its threshold.
C31_RetryWhileProfitHolds ==
  [][\A t \in TimerIds :
       /\ ReachesLadder(t)
          => LET due == DueLevels(rec'[positions'[tasks[t].tok]], TickPrice(t))
             IN /\ tasks'[t].pc = "tp_sell" <=> due # {}
                /\ due # {} => tasks'[t].i \in due /\ \A i \in due : tasks'[t].i <= i
       /\ ( /\ tasks[t].pc \in {"tp_notify", "tp_fail_notify"}
            /\ tasks'[t] # tasks[t]
            /\ positions'[tasks[t].tok] # 0
            /\ \A u \in TimerIds \ {t} : tasks[u].pc = "idle")
          => LET rest == {i \in DueLevels(rec'[positions'[tasks[t].tok]], tasks[t].price) :
                            i > tasks[t].i}
             IN /\ tasks'[t].pc = "tp_sell" <=> rest # {}
                /\ rest # {} => tasks'[t].i \in rest /\ \A i \in rest : tasks'[t].i <= i]_vars

\* C31 witness: the sell of level 0 failed on a tick at 1.30; the next tick,
\* at 1.25, has ended without asking for a sell, and the level is still
\* not recorded.
C31_Witness ==
  /\ lastOp.op = "tick" /\ lastOp.price = 1250
  /\ \A t \in TimerIds : tasks[t].pc = "idle"
  /\ \E g \in 1..Len(rec) :
       /\ Live(rec, g) /\ rec[g].maxObserved = 1300 /\ rec[g].isBreakevenMoved
       /\ rec[g].executedTpLevels = << >> /\ rec[g].totalSold = 0

\* C32: a timer callback runs only while at least one position is open:
\* none fires before the first position is registered, none after the
\* last one has been removed.
C32_TimerOnlyWhilePositionOpen ==
  [][ticks' = ticks + 1 => PositionsSize(positions) # 0]_vars

\* C33: isBreakevenMoved and isTrailingActive of a position only change
\* from false to true; the floor becomes entryPrice * (1 + offset/100)
\* only in the step that sets isBreakevenMoved, which is a tick whose
\* profit is at or above the trigger, and every tick not stopped at the
\* liquidation sell whose profit reaches the trigger sets it; once the flag
\* is set the floor changes only when trailing raises it, so a later tick
\* with a lower profit undoes nothing.
C33_UpgradesAreOneWay ==
  [][ /\ \A g \in 1..Len(rec) :
          (Live(rec, g) /\ Live(rec', g))
          => /\ rec[g].isBreakevenMoved => rec'[g].isBreakevenMoved
             /\ rec[g].isTrailingActive => rec'[g].isTrailingActive
             /\ (rec[g].isBreakevenMoved
                 /\ rec'[g].currentStopLoss # rec[g].currentStopLoss)
                => /\ rec'[g].isTrailingActive
                   /\ rec'[g].currentStopLoss > rec[g].currentStopLoss
                   /\ rec'[g].currentStopLoss =
                        rec'[g].highestPrice * (100 - trailing_distance_percent)
             /\ (~rec[g].isBreakevenMoved /\ rec'[g].isBreakevenMoved)
                => /\ rec'[g].currentStopLoss =
                        rec[g].entryPrice * (100 + breakeven_offset_percent)
                   /\ \E t \in TimerIds :
                        /\ tasks'[t].pc = "be_notify" /\ tasks[t].pc # "be_notify"
                        /\ ProfitAtLeast(tasks'[t].price, rec[g].entryPrice,
                                         trigger_profit_percent)
      /\ \A t \in TimerIds :
          LET g == positions[tasks[t].tok]
          IN ( /\ Fetched(t) /\ g # 0
               /\ tasks'[t].pc # "sl_sell"
               /\ ProfitAtLeast(lastOp'.price, rec[g].entryPrice, trigger_profit_percent))
             => rec'[g].isBreakevenMoved ]_vars

\* C33 witness: the floor was moved to 1.08 on a 1.00 entry, and a later
\* tick at 1.081, below the trigger, has ended with flag and floor as they
\* were.
C33_Witness ==
  /\ lastOp.op = "tick" /\ lastOp.price = 1081
  /\ \A t \in TimerIds : tasks[t].pc = "idle"
  /\ \E g \in 1..Len(rec) :
       /\ Live(rec, g) /\ rec[g].isBreakevenMoved /\ ~rec[g].isTrailingActive
       /\ rec[g].currentStopLoss = 1080 * 100

\* The step in which callback t ends its tick for a position that stays
\* open: it had a price and moves on to the next position or ends.
CompletesTick(t) ==
  /\ tasks[t].pc \in InUpdate \cup {"fetch"}
  /\ tasks'[t].pc \in {"idle", "fetch"} /\ tasks'[t] # tasks[t]
  /\ tasks[t].pc = "fetch" => lastOp'.price # NoPrice
  /\ positions'[tasks[t].tok] # 0

\* C34: whenever a tick completes without closing the position and
\* trailing is active, currentStopLoss >= highestPrice * (1 - distance/100).
C34_FloorFollowsHighest ==
  [][\A t \in TimerIds :
       CompletesTick(t)
       => LET pos == rec'[positions'[tasks[t].tok]]
          IN pos.isTrailingActive
             => pos.currentStopLoss >=
                  pos.highestPrice * (100 - trailing_distance_percent)]_vars

\* C35: in every reachable state of an open position, remainingAmount =
\* entryAmount * (1 - totalSold/100) and remainingAmount >= 0.
C35_RemainderOfEntry ==
  \A tok \in Tokens :
    positions[tok] # 0
    => LET pos == rec[positions[tok]]
       IN /\ pos.remainingAmount * 100 = pos.entryAmount * (100 - pos.totalSold)
          /\ pos.remainingAmount >= 0

\* The place of an awaiting tick in the step order of updatePosition.
StepRank(pc) ==
  CASE pc \in {"sl_sell", "sl_notify"} -> 1
    [] pc = "be_notify" -> 2
    [] pc = "tr_notify" -> 3
    [] pc \in {"tp_sell", "tp_notify", "tp_fail_notify"} -> 4
    [] OTHER -> 0

\* C36: within one tick the steps run in the order stop-loss check,
\* breakeven move, trailing activation, trailing update, ladder: a tick
\* never goes back to an earlier step, its stop-loss check is taken once,
\* when the price arrives, against the floor found at that moment, and a
\* floor raised later in the tick does not make that tick sell.
C36_StepsInFixedOrder ==
  [][\A t \in TimerIds :
       LET tk == tasks[t]
           tk2 == tasks'[t]
           g == positions[tk.tok]
       IN /\ (tk.pc \in InUpdate /\ tk2.pc \in InUpdate /\ tk2 # tk)
             => /\ StepRank(tk2.pc) >= StepRank(tk.pc)
                /\ tk2.pc # "sl_sell"
          /\ (tk.pc = "fetch" /\ tk2 # tk /\ lastOp'.price # NoPrice /\ g # 0)
             => (tk2.pc = "sl_sell"
                   <=> lastOp'.price * 100 <= rec[g].currentStopLoss)]_vars

\* A tick priced at or below the floor that it has itself raised goes on to
\* the ladder with the position open and no stop-loss sell.
C36_Witness ==
  \E t \in TimerIds :
    /\ tasks[t].pc \in {"tp_sell", "tp_notify", "tp_fail_notify"}
    /\ ~tasks[t].slTriggered
    /\ positions[tasks[t].tok] # 0
    /\ LET pos == rec[positions[tasks[t].tok]]
       IN /\ pos.isTrailingActive
          /\ tasks[t].price * 100 <= pos.currentStopLoss
          /\ pos.currentStopLoss = pos.highestPrice * (100 - trailing_distance_percent)

\* C37: a failed price fetch for a token raises its failure count by one
\* and a successful one sets it to zero; the warning is sent in exactly the
\* step in which the count reaches 3, so once per failure streak: not on
\* failures 1 and 2, not again on the 4th and later ones.
C37_OneAlertPerStreak ==
  [][\A tok \in Tokens :
       LET c == feed.failureCount[tok]
           c2 == feed'.failureCount[tok]
           settled == lastOp'.op = "getTokenPrice" /\ lastOp'.tok = tok
           failed == settled /\ lastOp'.outcome = "fail"
           succeeded == settled /\ lastOp'.outcome = "ok"
       IN /\ failed => c2 = c + 1
          /\ succeeded => c2 = 0
          /\ ~(failed \/ succeeded) => c2 = c
          /\ (settled /\ lastOp'.alerted) <=> (failed /\ c2 = 3)
          /\ feed'.alerts[tok] = IF c2 >= 3 THEN 1 ELSE 0]_vars

\* The fourth failure in a row has been counted and the streak has had
\* its one warning.
C37_Witness ==
  \E tok \in Tokens :
    /\ lastOp.op = "getTokenPrice" /\ lastOp.tok = tok
    /\ lastOp.outcome = "fail" /\ ~lastOp.alerted
    /\ feed.failureCount[tok] = 4
    /\ feed.alerts[tok] = 1

\* The risk state of a position record.
RiskState(pos) ==
  <<pos.executedTpLevels, pos.totalSold, pos.currentStopLoss,
    pos.isBreakevenMoved, pos.isTrailingActive>>

\* C38: while a position for a token is open its entryPrice and entryAmount
\* never change and its risk state is changed only by steps of ticks; a
\* second buy of the token leaves the existing record as it is.
C38_OpenRecordIsKept ==
  [][\A tok \in Tokens :
       (positions[tok] # 0 /\ positions'[tok] # 0)
       => LET old == rec[positions[tok]]
              new == rec'[positions'[tok]]
          IN /\ new.entryPrice = old.entryPrice
             /\ new.entryAmount = old.entryAmount
             /\ tasks' = tasks => RiskState(new) = RiskState(old)]_vars

\* C39: after emergencyStop has been invoked no further buy is submitted
\* and no new position is opened, neither by a call that was in flight,
\* nor by a queued token, nor by a later executeTrade call.
C39_StopHaltsTrading ==
  [][stops > 0
     => /\ \A fl \in BagToSet(flights') :
             fl.pc = "buy" => CopiesIn(fl, flights') <= CopiesIn(fl, flights)
        /\ \A tok \in Tokens : positions[tok] = 0 => positions'[tok] = 0]_vars

\* The results among the outcomes h, in order.
Obtained(h) == SelectSeq(h, LAMBDA o : o # Threw)

\* C40: emergencySellWithRetry makes at most maxRetries + 1 attempts, none
\* after an attempt that reported zero failed positions; it goes on while
\* attempts report failures or throw and are left; it returns the last
\* result obtained, or the empty result if every attempt threw; and once
\* called it does return.
C40_RetryTerminates ==
  /\ [](LET h == retry.history
             n == Len(h)
         IN /\ n <= retry.maxRetries + 1 \/ retry.maxRetries < 0
            /\ \A k \in 1..(n - 1) : h[k] = Threw \/ h[k].failed > 0
            /\ retry.pc = "returned"
               => /\ \/ n >= retry.maxRetries + 1
                     \/ (h[n] # Threw /\ h[n].failed = 0)
                  /\ retry.returned =
                       IF Obtained(h) = << >> THEN EmptyResult
                       ELSE Obtained(h)[Len(Obtained(h))])
  /\ (retry.pc # "idle" ~> retry.pc = "returned")

\* The call has returned the result of its first attempt after the
\* later attempts, all that were left, threw.
C40_Witness ==
  /\ retry.pc = "returned"
  /\ retry.maxRetries = 2
  /\ Len(retry.history) = 3
  /\ retry.history[1] # Threw /\ retry.history[1].failed > 0
  /\ retry.history[2] = Threw /\ retry.history[3] = Threw
  /\ retry.returned = retry.history[1]
====
